---- MODULE Spec2Model ----
(***************************************************************************)
(* Book-Store-Flask (src/app.py): the request handlers sell, add_book,     *)
(* update_stock, get_book_details and get_all_books running on concurrent  *)
(* request threads, the pooled MySQL connection each of them checks out    *)
(* (autocommit off, InnoDB default REPEATABLE READ: a transaction reads    *)
(* from the snapshot of its first SELECT, an UPDATE works on the latest    *)
(* committed row under a row lock) and the in-memory book cache with its   *)
(* lock; get_connection_pool with its lock, the sales ledger view, and the *)
(* cache_worker threads of src/test_performance_optimization.py.           *)
(*                                                                         *)
(* A text field of a form is a sequence of characters, a character being a *)
(* one-token string; " " is the blank, "sup2" stands for a non-ASCII digit.*)
(***************************************************************************)
EXTENDS Integers, Sequences, FiniteSets, TLC

VARIABLES Available_Books, Sales, book_cache, checkedOut,
          pc, form, local, conn, resp,
          started, faults, hist, readTag, entryTag,
          holds, connection_pool, frame

vars == <<Available_Books, Sales, book_cache, checkedOut,
          pc, form, local, conn, resp,
          started, faults, hist, readTag, entryTag,
          holds, connection_pool, frame>>

(* ------------------------------ bounds -------------------------------- *)
MaxRequests == 2
MaxSeqRequests == 3
MaxFaults == 1
MaxStock == 2

Threads == {"t1", "t2"}

(* --------------------------- program constants ------------------------ *)
pool_size == 10
\* a pool that hands out connections in autocommit mode
autocommit_on == TRUE

\* autocommit=False of the pool's connections
autocommit == FALSE

\* os.getenv('DB_POOL_SIZE', ...) when the variable is not set
Unset == <<"None">>
CACHE_DURATION == 5

(* ------------------------------ text ---------------------------------- *)
AsciiDigits == {"0", "1", "2", "3", "4", "5", "6", "7", "8", "9"}
UnicodeDigits == {"sup2"}

DigitVal(c) ==
    CASE c = "0" -> 0 [] c = "1" -> 1 [] c = "2" -> 2 [] c = "3" -> 3
      [] c = "4" -> 4 [] c = "5" -> 5 [] c = "6" -> 6 [] c = "7" -> 7
      [] c = "8" -> 8 [] OTHER -> 9

RECURSIVE LStrip(_)
LStrip(s) == IF s # <<>> /\ Head(s) = " " THEN LStrip(Tail(s)) ELSE s

RECURSIVE RStrip(_)
RStrip(s) ==
    IF s # <<>> /\ s[Len(s)] = " " THEN RStrip(SubSeq(s, 1, Len(s) - 1)) ELSE s

\* str.strip()
Strip(s) == RStrip(LStrip(s))

\* str.isdigit(): non-empty and every character a digit, ASCII or not
IsDigit(s) ==
    /\ s # <<>>
    /\ \A k \in 1..Len(s) : s[k] \in AsciiDigits \cup UnicodeDigits

RECURSIVE DigitsValue(_)
DigitsValue(s) ==
    IF s = <<>> THEN 0
    ELSE 10 * DigitsValue(SubSeq(s, 1, Len(s) - 1)) + DigitVal(s[Len(s)])

AllAscii(s) == s # <<>> /\ \A k \in 1..Len(s) : s[k] \in AsciiDigits

\* int(s) of a stripped field: an optional sign and decimal digits, else
\* ValueError
IntOk(s) ==
    \/ AllAscii(s)
    \/ s # <<>> /\ Head(s) \in {"-", "+"} /\ AllAscii(Tail(s))

IntValue(s) ==
    IF Head(s) = "-" THEN 0 - DigitsValue(Tail(s))
    ELSE IF Head(s) = "+" THEN DigitsValue(Tail(s))
    ELSE DigitsValue(s)

(* ----------------------------- functions ------------------------------ *)
EmptyFn == [x \in {} |-> 0]
\* an assignment that builds the dictionary anew from the one key
Put_alone(f, k, v) == [x \in {k} |-> v]

Put(f, k, v) == [x \in (DOMAIN f) \cup {k} |-> IF x = k THEN v ELSE f[x]]

(* ------------------------------- data --------------------------------- *)
A == <<"a">>
B == <<"b">>
C == <<"c">>
Blank == <<" ">>
Phone10 == <<"9", "8", "7", "6", "5", "4", "3", "2", "1", "0">>
TxnIds == {"TXN-1", "TXN-2"}

\* a row of Available_Books as a dictionary cursor returns it
NoBook == [Bookid |-> <<>>, BookName |-> <<>>, Quantity |-> 0, Price |-> 0]
Row(id, r) ==
    [Bookid |-> id, BookName |-> r.BookName, Quantity |-> r.Quantity,
     Price |-> r.Price]

\* a request: the view it is routed to, the user of its session
\* (current_user: a logged-in user unless stated) and the fields of its form
NoForm ==
    [op |-> "none", current_user |-> "user",
     customer_name |-> <<>>, phone_number |-> <<>>,
     book_ids |-> <<>>, quantities |-> <<>>, book_id |-> <<>>,
     book_name |-> <<>>, action |-> <<>>, quantity |-> <<>>, price |-> <<>>]

SellForm(name, phone, ids, qtys) ==
    [NoForm EXCEPT !.op = "sell", !.customer_name = name,
                   !.phone_number = phone, !.book_ids = ids,
                   !.quantities = qtys]

UpdateForm(id, action, qty) ==
    [NoForm EXCEPT !.op = "update_stock", !.book_id = id, !.action = action,
                   !.quantity = qty]

AddForm(id, name, qty, price) ==
    [NoForm EXCEPT !.op = "add_book", !.book_id = id, !.book_name = name,
                   !.quantity = qty, !.price = price]

GetForm(id) == [NoForm EXCEPT !.op = "get_book_details", !.book_id = id]

AllForm == [NoForm EXCEPT !.op = "get_all_books"]

\* GET /sales
SalesForm == [NoForm EXCEPT !.op = "sales"]

\* cache_worker(book_id, book_data) of test_cache_thread_safety
WorkerForm(id, name) ==
    [NoForm EXCEPT !.op = "cache_worker", !.book_id = id, !.book_name = name]

\* GET of a page: /dashboard, /stock, /logout
PageForm(view) == [NoForm EXCEPT !.op = view]

\* the same request sent without a session cookie
Anonymous(f) == [f EXCEPT !.current_user = "anonymous"]

\* views decorated with a login check that leaves out sell
LoginRequired_without_sell ==
    {"logout", "dashboard", "stock", "add_book", "update_stock", "sales",
     "get_book_details", "get_all_books"}

\* the views decorated with @login_required
LoginRequired ==
    {"logout", "dashboard", "sell", "stock", "add_book", "update_stock",
     "sales", "get_book_details", "get_all_books"}

Sale(ids, qtys) == SellForm(<<"n">>, Phone10, ids, qtys)

\* POST /sell: sales that pass validation when the stock allows
GoodSales ==
    { Sale(<<A>>, <<<<"2">>>>),
      Sale(<<A, B>>, <<<<"1">>, <<"1">>>>),
      Sale(<<B, A>>, <<<<"1">>, <<"1">>>>) }

\* POST /sell: sales whose second line fails validation
BadSales ==
    { Sale(<<A, A>>, <<<<"1">>, <<"1">>>>),
      Sale(<<A, C>>, <<<<"1">>, <<"1">>>>),
      Sale(<<A, B>>, <<<<"1">>, <<"2">>>>),
      Sale(<<A, B>>, <<<<"1">>, <<"x">>>>),
      Sale(<<A, B>>, <<<<"1">>, <<"0">>>>) }

\* POST /sell: forms the handler turns away before it validates a line
BadSellForms ==
    { Sale(<<Blank>>, <<<<"1">>>>),
      SellForm(<<"n">>, <<"1", "2">>, <<A>>, <<<<"1">>>>),
      SellForm(<<>>, Phone10, <<A>>, <<<<"1">>>>) }

SellForms ==
    GoodSales \cup BadSales \cup BadSellForms
      \cup { Sale(<<Blank, <<" ", "a">>>>, <<<<"1">>, <<"1", " ">>>>) }

\* POST /sell: line items the filter loop drops, trims or finds repeated;
\* zip() stops at the shorter of the two lists
FilterSales ==
    { Sale(<<A, A>>, <<<<"1">>, <<"1">>>>),
      Sale(<<<<" ", "a">>, A>>, <<<<"1">>, <<"1">>>>),
      Sale(<<A, A>>, <<<<>>, <<"1">>>>),
      Sale(<<A, A>>, <<<<"0">>, <<"1">>>>),
      Sale(<<A, B>>, <<<<"0">>, <<"1">>>>),
      Sale(<<A, B>>, <<Blank, <<"1", " ">>>>),
      Sale(<<Blank>>, <<<<"1">>>>),
      Sale(<<A, B>>, <<<<"1">>>>),
      Sale(<<B, Blank, A>>, <<<<"1">>, <<"1">>, <<"2">>>>),
      SellForm(<<"n">>, <<"1", "2">>, <<A, A>>, <<<<"1">>, <<"1">>>>) }

\* POST /stock/update
StockUpdates ==
    { UpdateForm(A, <<"add">>, <<"1">>),
      UpdateForm(A, <<"subtract">>, <<"2">>),
      UpdateForm(C, <<"add">>, <<"1">>) }

BadUpdateForms ==
    { UpdateForm(A, <<"set">>, <<"1">>),
      UpdateForm(A, <<"add">>, <<"0">>),
      UpdateForm(A, <<"add">>, <<"x">>),
      UpdateForm(A, <<"add">>, <<>>) }

UpdateForms == StockUpdates \cup BadUpdateForms

\* POST /stock/add
NewBooks ==
    { AddForm(C, <<"C">>, <<"1">>, <<"7">>),
      AddForm(A, <<"Z">>, <<"2">>, <<"7">>) }

BadAddForms ==
    { AddForm(C, <<"C">>, <<"-", "1">>, <<"7">>),
      AddForm(C, <<"C">>, <<"1">>, <<"x">>),
      AddForm(C, <<>>, <<"1">>, <<"7">>) }

AddForms == NewBooks \cup BadAddForms

GetForms == { GetForm(A), GetForm(C) }

NoLocal ==
    [i |-> 0, valid_book_ids |-> <<>>, valid_quantities |-> <<>>,
     books_to_sell |-> <<>>, total_amount |-> 0, transaction_id |-> "",
     book |-> NoBook, new_quantity |-> 0, quantity |-> 0, price |-> 0,
     books |-> <<>>]

\* a request's connection: the pooled connection and the transaction on it
NoConn ==
    [state |-> "none", snapTaken |-> FALSE, snap |-> EmptyFn, ins |-> <<>>,
     upd |-> EmptyFn, newrows |-> EmptyFn, slock |-> {}]
OpenConn == [NoConn EXCEPT !.state = "open"]

NoResp ==
    [op |-> "none", kind |-> "none", phase |-> "", detail |-> <<>>,
     transaction_id |-> "", total |-> 0, cached |-> FALSE, book |-> NoBook,
     transactions |-> EmptyFn, total_sales |-> 0]

NoHist == [committed |-> FALSE, cleared |-> FALSE]

\* the locks of the module: _cache_lock_book and _pool_lock
cache_lock_book == "_cache_lock_book"
pool_lock == "_pool_lock"

\* _connection_pool = None; a pool is the id-th pool constructed, made with
\* the setting of DB_POOL_SIZE it found and the pool_size it derived
NoPool == [id |-> 0, DB_POOL_SIZE |-> <<>>, pool_size |-> 0]

Init ==
    /\ \E q \in 1..MaxStock :
         Available_Books =
           [id \in {A, B} |->
              IF id = A THEN [BookName |-> <<"A">>, Quantity |-> q, Price |-> 100]
              ELSE [BookName |-> <<"B">>, Quantity |-> 1, Price |-> 150]]
    /\ Sales = <<>>
    /\ book_cache = EmptyFn
    /\ checkedOut = 0
    /\ pc = [p \in Threads |-> "idle"]
    /\ form = [p \in Threads |-> NoForm]
    /\ local = [p \in Threads |-> NoLocal]
    /\ conn = [p \in Threads |-> NoConn]
    /\ resp = [p \in Threads |-> NoResp]
    /\ started = 0
    /\ faults = 0
    /\ hist = [p \in Threads |-> NoHist]
    /\ readTag = [p \in Threads |-> {}]
    /\ entryTag = EmptyFn
    /\ holds = [p \in Threads |-> {}]
    /\ connection_pool = [id |-> 1, DB_POOL_SIZE |-> Unset, pool_size |-> pool_size]
    /\ frame = [p \in Threads |-> "none"]

(* --------------------------- the database ----------------------------- *)
Range(s) == {s[k] : k \in 1..Len(s)}
Min(a, b) == IF a < b THEN a ELSE b

\* a SELECT that is answered from book_cache for the books that have an entry
TxnRead_through_cache(c) ==
    [b \in DOMAIN Available_Books |->
        IF b \in DOMAIN book_cache
        THEN [BookName |-> book_cache[b].book.BookName,
              Quantity |-> book_cache[b].book.Quantity,
              Price |-> book_cache[b].book.Price]
        ELSE Available_Books[b]]

\* the rows a SELECT of transaction c sees: the snapshot of its first read,
\* or the committed rows when every statement is its own transaction
TxnRead(c) ==
    IF autocommit \/ ~c.snapTaken THEN Available_Books ELSE c.snap

AfterRead(c) ==
    IF autocommit THEN c
    ELSE [c EXCEPT !.snapTaken = TRUE, !.snap = TxnRead(c)]

\* row locks: a pending UPDATE or INSERT of a row holds it exclusively, the
\* foreign key of a pending INSERT INTO Sales holds its book row shared
XLocked(c) == (DOMAIN c.upd) \cup (DOMAIN c.newrows)

\* the quantity an UPDATE of transaction c works on: its own pending value,
\* else the latest committed one
CurrentQuantity(c, b) ==
    IF b \in DOMAIN c.upd THEN c.upd[b] ELSE Available_Books[b].Quantity

\* Available_Books and Sales once transaction c commits
CommitBooks(c) ==
    [b \in (DOMAIN Available_Books) \cup (DOMAIN c.newrows) |->
        IF b \in DOMAIN Available_Books
        THEN IF b \in DOMAIN c.upd
             THEN [Available_Books[b] EXCEPT !.Quantity = c.upd[b]]
             ELSE Available_Books[b]
        ELSE c.newrows[b]]
CommitSales(c) == Sales \o c.ins

(* --------------------------- request plumbing ------------------------- *)
\* the response: its kind; detail is the book id its message names, phase
\* the part of a sale an exception ended
Respond(p, kind) == [NoResp EXCEPT !.op = form[p].op, !.kind = kind]

\* the sale is validating its lines until the first INSERT INTO Sales
Phase(p) ==
    IF pc[p] \in {"sell_insert", "sell_update", "sell_commit"}
    THEN "persisting" ELSE "validating"

\* the handler returns: its locals are gone
Return(p, r) ==
    /\ pc' = [pc EXCEPT ![p] = "idle"]
    /\ resp' = [resp EXCEPT ![p] = r]
    /\ local' = [local EXCEPT ![p] = NoLocal]
    /\ form' = [form EXCEPT ![p] = NoForm]

\* conn.close() of an open pooled connection: back to the pool
Close(p) ==
    /\ conn' = [conn EXCEPT ![p] = NoConn]
    /\ checkedOut' = checkedOut - 1

\* the handler returns without closing: the connection is lost to the pool
Leak(p) ==
    /\ conn' = [conn EXCEPT ![p] = NoConn]
    /\ UNCHANGED checkedOut

\* pool = get_connection_pool() has returned the pool: at once when the
\* pool exists, else after the call has gone through the lock
PoolReady(p) ==
    \/ frame[p] = "none" /\ connection_pool # NoPool
    \/ frame[p] = "returned"

\* get_db_connection(): a pooled connection, or None once the retries fail
\* (the pool is exhausted, or pool.get_connection() cannot reach the server)
GetDbConnection(p, ok) ==
    /\ PoolReady(p)
    /\ frame' = [frame EXCEPT ![p] = "none"]
    /\ IF ok /\ checkedOut < connection_pool.pool_size
       THEN /\ conn' = [conn EXCEPT ![p] = OpenConn]
            /\ checkedOut' = checkedOut + 1
            /\ UNCHANGED faults
       ELSE /\ UNCHANGED <<conn, checkedOut>>
            /\ faults' = faults + (IF ok THEN 0 ELSE 1)

\* threading.Lock: free when no thread holds it
Free(lock) == \A q \in Threads : lock \notin holds[q]

Acquire(p, lock) ==
    /\ Free(lock)
    /\ holds' = [holds EXCEPT ![p] = @ \cup {lock}]

Release(p, lock) == holds' = [holds EXCEPT ![p] = @ \ {lock}]

MayFail(ok) == ok \/ faults < MaxFaults

Fault(ok) == faults' = faults + (IF ok THEN 0 ELSE 1)

\* the lookups that have read the store and not yet filled the cache
InFlightRead(q) == pc[q] \in {"get_put", "all_put"}

\* history: thread p committed a change of Available_Books: every snapshot
\* taken before, cached or about to be cached, predates it
Committed(p) ==
    /\ readTag' = [q \in Threads |->
                     IF InFlightRead(q) THEN readTag[q] \cup {p} ELSE readTag[q]]
    /\ entryTag' = [b \in DOMAIN entryTag |-> entryTag[b] \cup {p}]

\* conn.commit() went through, then conn.close() gave the connection back
Commit(p) ==
    /\ Available_Books' = CommitBooks(conn[p])
    /\ Sales' = CommitSales(conn[p])
    /\ Close(p)
    /\ hist' = [hist EXCEPT ![p] = [@ EXCEPT !.committed = TRUE]]
    /\ Committed(p)

\* conn.commit() went through, then cursor.close() or conn.close() (whose
\* session reset is a round trip to the server) raised: the except branch
\* answers and the statements after conn.close() are not reached
CommitThenRaise(p) ==
    /\ faults < MaxFaults
    /\ faults' = faults + 1
    /\ Commit(p)
    /\ Return(p, [Respond(p, "error") EXCEPT !.phase = "committed"])

\* a request thread takes up a request, one of Forms, while fewer than limit
\* requests have been taken up; @login_required stops a request without a
\* logged-in user before the view
Begin(p, Forms, limit) ==
    /\ pc[p] = "idle"
    /\ started < limit
    /\ started' = started + 1
    /\ \E f \in Forms :
         /\ form' = [form EXCEPT ![p] = f]
         /\ pc' = [pc EXCEPT ![p] =
                     IF f.op \in LoginRequired /\ f.current_user = "anonymous"
                     THEN "login_required" ELSE f.op]
    /\ resp' = [resp EXCEPT ![p] = NoResp]
    /\ hist' = [hist EXCEPT ![p] = NoHist]
    /\ UNCHANGED <<Available_Books, Sales, book_cache, checkedOut, local, conn,
                   faults, readTag, entryTag>>
    /\ UNCHANGED <<holds, connection_pool, frame>>

\* @login_required with login_manager.login_view = 'login': the request is
\* answered with the redirect (302) to the login view, the view is not called
Unauthorized(p) ==
    /\ pc[p] = "login_required"
    /\ Return(p, Respond(p, "login_redirect"))
    /\ UNCHANGED <<Available_Books, Sales, book_cache, checkedOut, conn,
                   started, faults, hist, readTag, entryTag>>
    /\ UNCHANGED <<holds, connection_pool, frame>>

(* ------------------------------- sell --------------------------------- *)
\* the loop over zip(book_ids, quantities): blank entries are skipped, a
\* repeated stripped id stops the loop
RECURSIVE FilterFrom(_, _, _, _, _)
FilterFrom(ids, qtys, k, vids, vqs) ==
    IF k > Min(Len(ids), Len(qtys))
    THEN [dup |-> FALSE, ids |-> vids, qtys |-> vqs]
    ELSE IF /\ ids[k] # <<>> /\ Strip(ids[k]) # <<>>
            /\ qtys[k] # <<>> /\ Strip(qtys[k]) # <<>>
         THEN IF Strip(ids[k]) \in Range(vids)
              THEN [dup |-> TRUE, ids |-> vids, qtys |-> vqs]
              ELSE FilterFrom(ids, qtys, k + 1, Append(vids, Strip(ids[k])),
                              Append(vqs, Strip(qtys[k])))
         ELSE FilterFrom(ids, qtys, k + 1, vids, vqs)

\* a loop without the test "if book_id in valid_book_ids"
SellFilter_no_duplicate_test(ids, qtys) ==
    [FilterFrom(ids, qtys, 1, <<>>, <<>>) EXCEPT !.dup = FALSE]

SellFilter(ids, qtys) == FilterFrom(ids, qtys, 1, <<>>, <<>>)

\* one entry of books_to_sell
ToSell(id, book, quantity) ==
    [book_id |-> id, book_name |-> book.BookName, quantity |-> quantity,
     price |-> book.Price]

\* a total that adds the unit prices
Subtotal_unit_price(book, quantity) == book.Price

\* total_amount += book['Price'] * quantity
Subtotal(book, quantity) == book.Price * quantity

\* the row one INSERT INTO Sales writes
SaleRow(txn, name, phone, bk) ==
    [transaction_id |-> txn, CustomerName |-> name, PhoneNumber |-> phone,
     Bookid |-> bk.book_id, BookName |-> bk.book_name,
     Quantity |-> bk.quantity, Price |-> bk.price]

\* an except branch that commits what the transaction holds
SellExcept_commits(p) ==
    /\ Available_Books' = CommitBooks(conn[p])
    /\ Sales' = CommitSales(conn[p])
    /\ Close(p)
    /\ Return(p, [Respond(p, "error") EXCEPT !.phase = Phase(p)])

\* except Exception: conn.rollback(); conn.close()
SellExcept(p) ==
    /\ UNCHANGED <<Available_Books, Sales>>
    /\ Close(p)
    /\ Return(p, [Respond(p, "error") EXCEPT !.phase = Phase(p)])

\* conn = get_db_connection()
SellConnect(p) ==
    /\ pc[p] = "sell"
    /\ \E ok \in BOOLEAN : MayFail(ok) /\ GetDbConnection(p, ok)
    /\ pc' = [pc EXCEPT ![p] = "sell_form"]
    /\ UNCHANGED <<Available_Books, Sales, book_cache, form, local, resp,
                   started, hist, readTag, entryTag>>
    /\ UNCHANGED <<holds, connection_pool>>

\* the checks of the form, the transaction id, the filter of the lines
SellCheckForm(p) ==
    /\ pc[p] = "sell_form"
    /\ LET customer_name == Strip(form[p].customer_name)
           phone_number == Strip(form[p].phone_number)
           f == SellFilter(form[p].book_ids, form[p].quantities)
       IN  IF customer_name = <<>> \/ phone_number = <<>> \/ form[p].book_ids = <<>>
           THEN Leak(p) /\ Return(p, Respond(p, "missing_fields"))
           ELSE IF ~IsDigit(phone_number) \/ Len(phone_number) # 10
           THEN Leak(p) /\ Return(p, Respond(p, "invalid_phone"))
           ELSE IF conn[p].state = "none"
           THEN /\ UNCHANGED <<conn, checkedOut>>
                /\ Return(p, Respond(p, "conn_error"))
           ELSE IF f.dup
           THEN Close(p) /\ Return(p, Respond(p, "duplicate"))
           ELSE IF f.ids = <<>>
           THEN Close(p) /\ Return(p, Respond(p, "empty"))
           ELSE /\ \E t \in TxnIds :
                     local' = [local EXCEPT ![p] =
                                 [NoLocal EXCEPT !.transaction_id = t,
                                                 !.valid_book_ids = f.ids,
                                                 !.valid_quantities = f.qtys,
                                                 !.i = 1]]
                /\ pc' = [pc EXCEPT ![p] = "sell_validate"]
                /\ UNCHANGED <<conn, checkedOut, resp, form>>
    /\ UNCHANGED <<Available_Books, Sales, book_cache, started, faults,
                   hist, readTag, entryTag>>
    /\ UNCHANGED <<holds, connection_pool, frame>>

\* a validation failure: cursor.close(); conn.close(); return redirect(...)
SellReject(p, kind) ==
    /\ UNCHANGED <<Available_Books, Sales>>
    /\ Close(p)
    /\ Return(p, [Respond(p, kind) EXCEPT
                    !.detail = local[p].valid_book_ids[local[p].i]])

\* a loop that writes and commits each line as soon as it is validated
SellValidate_writes_each_line(p) ==
    /\ pc[p] = "sell_validate"
    /\ LET l == local[p]
           book_id == l.valid_book_ids[l.i]
           qs == l.valid_quantities[l.i]
       IN  IF ~IntOk(qs)
           THEN SellReject(p, "invalid_quantity") /\ UNCHANGED faults
           ELSE IF IntValue(qs) <= 0
           THEN SellReject(p, "nonpositive_quantity") /\ UNCHANGED faults
           ELSE \E ok \in BOOLEAN :
                  /\ MayFail(ok)
                  /\ Fault(ok)
                  /\ IF ~ok THEN SellExcept(p)
                     ELSE LET rows == TxnRead(conn[p])
                              quantity == IntValue(qs)
                          IN  IF book_id \notin DOMAIN rows
                              THEN SellReject(p, "not_found")
                              ELSE IF rows[book_id].Quantity < quantity
                              THEN SellReject(p, "insufficient")
                              ELSE /\ local' = [local EXCEPT ![p] =
                                        [l EXCEPT
                                           !.books_to_sell =
                                              Append(@, ToSell(book_id, rows[book_id], quantity)),
                                           !.total_amount = @ + Subtotal(rows[book_id], quantity),
                                           !.i = IF l.i < Len(l.valid_book_ids) THEN l.i + 1 ELSE 1]]
                                   /\ pc' = [pc EXCEPT ![p] =
                                        IF l.i < Len(l.valid_book_ids)
                                        THEN "sell_validate" ELSE "sell_insert"]
                                   /\ conn' = [conn EXCEPT ![p] = AfterRead(@)]
                                   /\ Sales' = Append(Sales,
                                        SaleRow(l.transaction_id, Strip(form[p].customer_name),
                                                Strip(form[p].phone_number),
                                                ToSell(book_id, rows[book_id], quantity)))
                                   /\ Available_Books' =
                                        [Available_Books EXCEPT ![book_id].Quantity = @ - quantity]
                                   /\ UNCHANGED <<checkedOut, resp, form>>
    /\ UNCHANGED <<book_cache, started, hist, readTag, entryTag>>
    /\ UNCHANGED <<holds, connection_pool, frame>>

\* one round of "Validate all books first"
SellValidate(p) ==
    /\ pc[p] = "sell_validate"
    /\ LET l == local[p]
           book_id == l.valid_book_ids[l.i]
           qs == l.valid_quantities[l.i]
       IN  IF ~IntOk(qs)
           THEN SellReject(p, "invalid_quantity") /\ UNCHANGED faults
           ELSE IF IntValue(qs) <= 0
           THEN SellReject(p, "nonpositive_quantity") /\ UNCHANGED faults
           ELSE \E ok \in BOOLEAN :
                  /\ MayFail(ok)
                  /\ Fault(ok)
                  /\ IF ~ok THEN SellExcept(p)
                     ELSE LET rows == TxnRead(conn[p])
                              quantity == IntValue(qs)
                          IN  IF book_id \notin DOMAIN rows
                              THEN SellReject(p, "not_found")
                              ELSE IF rows[book_id].Quantity < quantity
                              THEN SellReject(p, "insufficient")
                              ELSE /\ local' = [local EXCEPT ![p] =
                                        [l EXCEPT
                                           !.books_to_sell =
                                              Append(@, ToSell(book_id, rows[book_id], quantity)),
                                           !.total_amount = @ + Subtotal(rows[book_id], quantity),
                                           !.i = IF l.i < Len(l.valid_book_ids) THEN l.i + 1 ELSE 1]]
                                   /\ pc' = [pc EXCEPT ![p] =
                                        IF l.i < Len(l.valid_book_ids)
                                        THEN "sell_validate" ELSE "sell_insert"]
                                   /\ conn' = [conn EXCEPT ![p] = AfterRead(@)]
                                   /\ UNCHANGED <<Available_Books, Sales, checkedOut,
                                                  resp, form>>
    /\ UNCHANGED <<book_cache, started, hist, readTag, entryTag>>
    /\ UNCHANGED <<holds, connection_pool, frame>>

\* the statement the thread is about to execute waits for these threads
Blockers(p) ==
    IF pc[p] = "sell_insert"
    THEN {q \in Threads \ {p} :
            local[p].books_to_sell[local[p].i].book_id \in XLocked(conn[q])}
    ELSE IF pc[p] = "sell_update"
    THEN {q \in Threads \ {p} :
            local[p].books_to_sell[local[p].i].book_id
               \in XLocked(conn[q]) \cup conn[q].slock}
    ELSE IF pc[p] \in {"upd_update", "add_insert"}
    THEN {q \in Threads \ {p} :
            Strip(form[p].book_id) \in XLocked(conn[q]) \cup conn[q].slock}
    ELSE {}

\* INSERT INTO Sales of the line local[p].i
SellInsert(p) ==
    /\ pc[p] = "sell_insert"
    /\ LET l == local[p]
           bk == l.books_to_sell[l.i]
           row == SaleRow(l.transaction_id, Strip(form[p].customer_name),
                          Strip(form[p].phone_number), bk)
       IN  \E ok \in BOOLEAN :
             /\ MayFail(ok)
             /\ Fault(ok)
             /\ IF ~ok THEN SellExcept(p)
                ELSE /\ Blockers(p) = {}
                     /\ IF autocommit
                        THEN /\ Sales' = Append(Sales, row)
                             /\ UNCHANGED conn
                        ELSE /\ conn' = [conn EXCEPT ![p] =
                                  [@ EXCEPT !.ins = Append(@, row),
                                            !.slock = @ \cup {bk.book_id}]]
                             /\ UNCHANGED Sales
                     /\ pc' = [pc EXCEPT ![p] = "sell_update"]
                     /\ UNCHANGED <<Available_Books, checkedOut, resp, form, local>>
    /\ UNCHANGED <<book_cache, started, hist, readTag, entryTag>>
    /\ UNCHANGED <<holds, connection_pool, frame>>

\* UPDATE Available_Books SET Quantity = Quantity - %s of the line local[p].i
SellUpdate(p) ==
    /\ pc[p] = "sell_update"
    /\ LET l == local[p]
           bk == l.books_to_sell[l.i]
           b == bk.book_id
           last == l.i = Len(l.books_to_sell)
       IN  \E ok \in BOOLEAN :
             /\ MayFail(ok)
             /\ Fault(ok)
             /\ IF ~ok THEN SellExcept(p)
                ELSE /\ Blockers(p) = {}
                     /\ IF b \notin DOMAIN Available_Books
                        THEN UNCHANGED <<Available_Books, conn>>
                        ELSE IF autocommit
                        THEN /\ Available_Books' =
                                  [Available_Books EXCEPT ![b].Quantity = @ - bk.quantity]
                             /\ UNCHANGED conn
                        ELSE /\ conn' = [conn EXCEPT ![p] =
                                  [@ EXCEPT !.upd =
                                     Put(@, b, CurrentQuantity(conn[p], b) - bk.quantity)]]
                             /\ UNCHANGED Available_Books
                     /\ local' = [local EXCEPT ![p].i = IF last THEN 1 ELSE l.i + 1]
                     /\ pc' = [pc EXCEPT ![p] =
                                 IF last THEN "sell_commit" ELSE "sell_insert"]
                     /\ UNCHANGED <<Sales, checkedOut, resp, form>>
    /\ UNCHANGED <<book_cache, started, hist, readTag, entryTag>>
    /\ UNCHANGED <<holds, connection_pool, frame>>

\* conn.commit(); cursor.close(); conn.close()
SellCommit(p) ==
    /\ pc[p] = "sell_commit"
    /\ \/ \E ok \in BOOLEAN :
            /\ MayFail(ok)
            /\ Fault(ok)
            /\ IF ~ok THEN SellExcept(p) /\ UNCHANGED <<hist, readTag, entryTag>>
               ELSE /\ Commit(p)
                    /\ pc' = [pc EXCEPT ![p] = "sell_clear"]
                    /\ UNCHANGED <<resp, form, local>>
       \/ CommitThenRaise(p)
    /\ UNCHANGED <<book_cache, started>>
    /\ UNCHANGED <<holds, connection_pool, frame>>

\* a clear that drops the expired entries only
ClearBookCache_expired_only(p) ==
    /\ cache_lock_book \in holds[p]
    /\ Release(p, cache_lock_book)
    /\ book_cache' =
         [b \in {x \in DOMAIN book_cache : book_cache[x].age < CACHE_DURATION}
            |-> book_cache[b]]
    /\ entryTag' = [b \in DOMAIN book_cache' |-> entryTag[b]]
    /\ readTag' = [q \in Threads |->
                     IF p \in readTag[q] THEN (readTag[q] \ {p}) \cup {"late"}
                     ELSE readTag[q]]
    /\ hist' = [hist EXCEPT ![p].cleared = TRUE]

\* clear_book_cache(), under the cache lock
ClearBookCache(p) ==
    /\ cache_lock_book \in holds[p]
    /\ Release(p, cache_lock_book)
    /\ book_cache' = EmptyFn
    /\ entryTag' = EmptyFn
    /\ readTag' = [q \in Threads |->
                     IF p \in readTag[q] THEN (readTag[q] \ {p}) \cup {"late"}
                     ELSE readTag[q]]
    /\ hist' = [hist EXCEPT ![p].cleared = TRUE]

\* clear_book_cache(); flash('Sale completed!...'); return
SellClear(p) ==
    /\ pc[p] = "sell_clear"
    /\ ClearBookCache(p)
    /\ Return(p, [Respond(p, "sold") EXCEPT
                    !.transaction_id = local[p].transaction_id,
                    !.total = local[p].total_amount])
    /\ UNCHANGED <<Available_Books, Sales, checkedOut, conn, started, faults>>
    /\ UNCHANGED <<connection_pool, frame>>

(* --------------------------- update_stock ----------------------------- *)
\* an except branch that falls through to clear_book_cache()
UpdExcept_then_clear(p) ==
    /\ UNCHANGED <<Available_Books, Sales>>
    /\ Close(p)
    /\ pc' = [pc EXCEPT ![p] = "upd_clear"]
    /\ UNCHANGED <<resp, form, local>>

\* except Error: conn.close(), whose session reset drops the transaction
UpdExcept(p) ==
    /\ UNCHANGED <<Available_Books, Sales>>
    /\ Close(p)
    /\ Return(p, Respond(p, "error"))

UpdReject(p, kind) ==
    /\ UNCHANGED <<Available_Books, Sales>>
    /\ Close(p)
    /\ Return(p, Respond(p, kind))

\* new_quantity of the "Calculate new quantity" block
NewQuantity(action, current, quantity) ==
    IF action = <<"add">> THEN current + quantity ELSE current - quantity

\* the checks of the form, then conn = get_db_connection()
UpdBegin(p) ==
    /\ pc[p] = "update_stock"
    /\ LET book_id == Strip(form[p].book_id)
           action == Strip(form[p].action)
           quantity == Strip(form[p].quantity)
       IN  IF book_id = <<>> \/ action = <<>> \/ quantity = <<>>
           THEN Return(p, Respond(p, "missing_fields")) /\ UNCHANGED <<conn, checkedOut, faults, frame>>
           ELSE IF action \notin {<<"add">>, <<"subtract">>}
           THEN Return(p, Respond(p, "invalid_action")) /\ UNCHANGED <<conn, checkedOut, faults, frame>>
           ELSE IF ~IntOk(quantity)
           THEN Return(p, Respond(p, "invalid_quantity")) /\ UNCHANGED <<conn, checkedOut, faults, frame>>
           ELSE IF IntValue(quantity) <= 0
           THEN Return(p, Respond(p, "nonpositive_quantity")) /\ UNCHANGED <<conn, checkedOut, faults, frame>>
           ELSE \E ok \in BOOLEAN :
                  /\ MayFail(ok)
                  /\ GetDbConnection(p, ok)
                  /\ IF conn'[p].state = "none"
                     THEN Return(p, Respond(p, "conn_error"))
                     ELSE /\ local' = [local EXCEPT ![p].quantity = IntValue(quantity)]
                          /\ pc' = [pc EXCEPT ![p] = "upd_select"]
                          /\ UNCHANGED <<resp, form>>
    /\ UNCHANGED <<Available_Books, Sales, book_cache, started,
                   hist, readTag, entryTag>>
    /\ UNCHANGED <<holds, connection_pool>>

\* SELECT * FROM Available_Books WHERE Bookid = %s, and the new quantity
UpdSelect(p) ==
    /\ pc[p] = "upd_select"
    /\ LET book_id == Strip(form[p].book_id)
           action == Strip(form[p].action)
       IN  \E ok \in BOOLEAN :
             /\ MayFail(ok)
             /\ Fault(ok)
             /\ IF ~ok THEN UpdExcept(p)
                ELSE LET rows == TxnRead(conn[p])
                     IN  IF book_id \notin DOMAIN rows
                         THEN UpdReject(p, "not_found")
                         ELSE IF NewQuantity(action, rows[book_id].Quantity,
                                             local[p].quantity) < 0
                                 /\ action # <<"add">>
                         THEN UpdReject(p, "insufficient")
                         ELSE /\ local' = [local EXCEPT ![p] =
                                   [@ EXCEPT !.book = Row(book_id, rows[book_id]),
                                             !.new_quantity =
                                                NewQuantity(action, rows[book_id].Quantity,
                                                            local[p].quantity)]]
                              /\ conn' = [conn EXCEPT ![p] = AfterRead(@)]
                              /\ pc' = [pc EXCEPT ![p] = "upd_update"]
                              /\ UNCHANGED <<Available_Books, Sales, checkedOut, resp, form>>
    /\ UNCHANGED <<book_cache, started, hist, readTag, entryTag>>
    /\ UNCHANGED <<holds, connection_pool, frame>>

\* UPDATE Available_Books SET Quantity = %s WHERE Bookid = %s
UpdUpdate(p) ==
    /\ pc[p] = "upd_update"
    /\ LET b == Strip(form[p].book_id)
       IN  \E ok \in BOOLEAN :
             /\ MayFail(ok)
             /\ Fault(ok)
             /\ IF ~ok THEN UpdExcept(p)
                ELSE /\ Blockers(p) = {}
                     /\ IF b \notin DOMAIN Available_Books
                        THEN UNCHANGED <<Available_Books, conn>>
                        ELSE IF autocommit
                        THEN /\ Available_Books' =
                                  [Available_Books EXCEPT ![b].Quantity = local[p].new_quantity]
                             /\ UNCHANGED conn
                        ELSE /\ conn' = [conn EXCEPT ![p] =
                                  [@ EXCEPT !.upd = Put(@, b, local[p].new_quantity)]]
                             /\ UNCHANGED Available_Books
                     /\ pc' = [pc EXCEPT ![p] = "upd_commit"]
                     /\ UNCHANGED <<Sales, checkedOut, resp, form, local>>
    /\ UNCHANGED <<book_cache, started, hist, readTag, entryTag>>
    /\ UNCHANGED <<holds, connection_pool, frame>>

\* conn.commit(); cursor.close(); conn.close()
UpdCommit(p) ==
    /\ pc[p] = "upd_commit"
    /\ \/ \E ok \in BOOLEAN :
            /\ MayFail(ok)
            /\ Fault(ok)
            /\ IF ~ok THEN UpdExcept(p) /\ UNCHANGED <<hist, readTag, entryTag>>
               ELSE /\ Commit(p)
                    /\ pc' = [pc EXCEPT ![p] = "upd_clear"]
                    /\ UNCHANGED <<resp, form, local>>
       \/ CommitThenRaise(p)
    /\ UNCHANGED <<book_cache, started>>
    /\ UNCHANGED <<holds, connection_pool, frame>>

\* clear_book_cache(); flash(...); return
UpdClear(p) ==
    /\ pc[p] = "upd_clear"
    /\ ClearBookCache(p)
    /\ Return(p, Respond(p, "updated"))
    /\ UNCHANGED <<Available_Books, Sales, checkedOut, conn, started, faults>>
    /\ UNCHANGED <<connection_pool, frame>>

(* ------------------------------ add_book ------------------------------ *)
\* except Error: flash(...); return: the connection is not closed
AddExcept(p, kind) ==
    /\ UNCHANGED <<Available_Books, Sales>>
    /\ Leak(p)
    /\ Return(p, Respond(p, kind))

\* the row INSERT INTO Available_Books writes
NewBook(name, quantity, price) ==
    [BookName |-> name, Quantity |-> quantity, Price |-> price]

\* a table without the unique key: the INSERT replaces the row
DuplicateEntry_no_key(b) == FALSE

\* the unique key of Available_Books: the INSERT fails on an existing Bookid
DuplicateEntry(b) == b \in DOMAIN Available_Books

\* the checks of the form, then conn = get_db_connection()
AddBegin(p) ==
    /\ pc[p] = "add_book"
    /\ LET book_id == Strip(form[p].book_id)
           book_name == Strip(form[p].book_name)
           quantity == Strip(form[p].quantity)
           price == Strip(form[p].price)
       IN  IF book_id = <<>> \/ book_name = <<>> \/ quantity = <<>> \/ price = <<>>
           THEN Return(p, Respond(p, "missing_fields")) /\ UNCHANGED <<conn, checkedOut, faults, frame>>
           ELSE IF ~IntOk(quantity) \/ ~IntOk(price)
           THEN Return(p, Respond(p, "invalid_number")) /\ UNCHANGED <<conn, checkedOut, faults, frame>>
           ELSE IF IntValue(quantity) < 0 \/ IntValue(price) < 0
           THEN Return(p, Respond(p, "negative_number")) /\ UNCHANGED <<conn, checkedOut, faults, frame>>
           ELSE \E ok \in BOOLEAN :
                  /\ MayFail(ok)
                  /\ GetDbConnection(p, ok)
                  /\ IF conn'[p].state = "none"
                     THEN Return(p, Respond(p, "conn_error"))
                     ELSE /\ local' = [local EXCEPT ![p] =
                                [@ EXCEPT !.quantity = IntValue(quantity),
                                          !.price = IntValue(price)]]
                          /\ pc' = [pc EXCEPT ![p] = "add_insert"]
                          /\ UNCHANGED <<resp, form>>
    /\ UNCHANGED <<Available_Books, Sales, book_cache, started,
                   hist, readTag, entryTag>>
    /\ UNCHANGED <<holds, connection_pool>>

\* INSERT INTO Available_Books (...) VALUES (...)
AddInsert(p) ==
    /\ pc[p] = "add_insert"
    /\ LET b == Strip(form[p].book_id)
           row == NewBook(Strip(form[p].book_name), local[p].quantity, local[p].price)
       IN  \E ok \in BOOLEAN :
             /\ MayFail(ok)
             /\ Fault(ok)
             /\ IF ~ok THEN AddExcept(p, "error")
                ELSE /\ Blockers(p) = {}
                     /\ IF DuplicateEntry(b)
                        THEN AddExcept(p, "duplicate")
                        ELSE /\ IF autocommit
                                THEN /\ Available_Books' = Put(Available_Books, b, row)
                                     /\ UNCHANGED conn
                                ELSE /\ conn' = [conn EXCEPT ![p] =
                                          [@ EXCEPT !.newrows = Put(@, b, row)]]
                                     /\ UNCHANGED Available_Books
                             /\ pc' = [pc EXCEPT ![p] = "add_commit"]
                             /\ UNCHANGED <<Sales, checkedOut, resp, form, local>>
    /\ UNCHANGED <<book_cache, started, hist, readTag, entryTag>>
    /\ UNCHANGED <<holds, connection_pool, frame>>

\* conn.commit(); cursor.close(); conn.close()
AddCommit(p) ==
    /\ pc[p] = "add_commit"
    /\ \/ \E ok \in BOOLEAN :
            /\ MayFail(ok)
            /\ Fault(ok)
            /\ IF ~ok THEN AddExcept(p, "error") /\ UNCHANGED <<hist, readTag, entryTag>>
               ELSE /\ Commit(p)
                    /\ pc' = [pc EXCEPT ![p] = "add_clear"]
                    /\ UNCHANGED <<resp, form, local>>
       \/ CommitThenRaise(p)
    /\ UNCHANGED <<book_cache, started>>
    /\ UNCHANGED <<holds, connection_pool, frame>>

\* clear_book_cache(); flash(...); return
AddClear(p) ==
    /\ pc[p] = "add_clear"
    /\ ClearBookCache(p)
    /\ Return(p, Respond(p, "added"))
    /\ UNCHANGED <<Available_Books, Sales, checkedOut, conn, started, faults>>
    /\ UNCHANGED <<connection_pool, frame>>

\* InnoDB aborts a statement whose lock wait closes a cycle; the handler's
\* except branch runs
RECURSIVE WaitsOn(_, _)
WaitsOn(S, n) ==
    IF n = 0 THEN S ELSE WaitsOn(S \cup UNION {Blockers(q) : q \in S}, n - 1)

\* a server that never looks for a cycle of lock waits
Deadlocked_undetected(p) == FALSE

Deadlocked(p) == p \in WaitsOn(Blockers(p), Cardinality(Threads))

DeadlockAbort(p) ==
    /\ Deadlocked(p)
    /\ IF form[p].op = "sell" THEN SellExcept(p)
       ELSE IF form[p].op = "update_stock" THEN UpdExcept(p)
       ELSE AddExcept(p, "error")
    /\ UNCHANGED <<book_cache, started, faults, hist, readTag, entryTag>>
    /\ UNCHANGED <<holds, connection_pool, frame>>

(* ------------------------- get_connection_pool ------------------------ *)
\* the settings of DB_POOL_SIZE in the environment
PoolSizeSettings ==
    { Unset, <<"1">>, <<"2">>, <<"1", "0", "0">>, <<"0">>, <<"1", "0", "1">>,
      <<"-", "1">>, <<"x">>, <<" ", "2">> }

\* os.getenv(name, default)
Getenv(v, default) == IF v = Unset THEN default ELSE v

\* a pool size taken from the setting without the range check
PoolSize_unchecked(v) ==
    LET t == Strip(Getenv(v, <<"1", "0">>))
    IN  IF ~IntOk(t) THEN pool_size ELSE IntValue(t)

\* pool_size = int(os.getenv('DB_POOL_SIZE', '10')), the range check and the
\* except (ValueError, TypeError) branch; int() skips surrounding blanks
PoolSize(v) ==
    LET t == Strip(Getenv(v, <<"1", "0">>))
    IN  IF ~IntOk(t) THEN pool_size
        ELSE IF IntValue(t) < 1 \/ IntValue(t) > 100 THEN pool_size
        ELSE IntValue(t)

\* pooling.MySQLConnectionPool(pool_size=pool_size, ...)
NewPool(v) ==
    [id |-> connection_pool.id + 1, DB_POOL_SIZE |-> v, pool_size |-> PoolSize(v)]

\* the form of update_stock passes the checks before get_db_connection()
UpdFormOk(f) ==
    /\ Strip(f.book_id) # <<>> /\ Strip(f.action) # <<>> /\ Strip(f.quantity) # <<>>
    /\ Strip(f.action) \in {<<"add">>, <<"subtract">>}
    /\ IntOk(Strip(f.quantity))
    /\ IntValue(Strip(f.quantity)) > 0

\* the form of add_book passes the checks before get_db_connection()
AddFormOk(f) ==
    /\ Strip(f.book_id) # <<>> /\ Strip(f.book_name) # <<>>
    /\ Strip(f.quantity) # <<>> /\ Strip(f.price) # <<>>
    /\ IntOk(Strip(f.quantity)) /\ IntOk(Strip(f.price))
    /\ IntValue(Strip(f.quantity)) >= 0 /\ IntValue(Strip(f.price)) >= 0

\* the thread is at conn = get_db_connection()
Connecting(p) ==
    \/ pc[p] \in {"sell", "get_conn", "get_all_books", "sales"}
    \/ pc[p] = "update_stock" /\ UpdFormOk(form[p])
    \/ pc[p] = "add_book" /\ AddFormOk(form[p])

\* if _connection_pool is None: the check made without the lock
PoolCheck(p) ==
    /\ Connecting(p)
    /\ frame[p] = "none"
    /\ connection_pool = NoPool
    /\ frame' = [frame EXCEPT ![p] = "waiting"]
    /\ UNCHANGED <<Available_Books, Sales, book_cache, checkedOut, pc, form,
                   local, conn, resp, started, faults, hist, readTag, entryTag,
                   holds, connection_pool>>

\* with _pool_lock:
PoolLock(p) ==
    /\ frame[p] = "waiting"
    /\ Acquire(p, pool_lock)
    /\ frame' = [frame EXCEPT ![p] = "locked"]
    /\ UNCHANGED <<Available_Books, Sales, book_cache, checkedOut, pc, form,
                   local, conn, resp, started, faults, hist, readTag, entryTag,
                   connection_pool>>

\* a body of the with block that constructs without looking again
PoolConstruct_single_check(p) ==
    /\ frame[p] = "locked"
    /\ Release(p, pool_lock)
    /\ \E ok \in BOOLEAN :
         /\ MayFail(ok)
         /\ Fault(ok)
         /\ IF ok
            THEN /\ \E v \in PoolSizeSettings : connection_pool' = NewPool(v)
                 /\ frame' = [frame EXCEPT ![p] = "returned"]
            ELSE /\ frame' = [frame EXCEPT ![p] = "raised"]
                 /\ UNCHANGED connection_pool
    /\ UNCHANGED <<Available_Books, Sales, book_cache, checkedOut, pc, form,
                   local, conn, resp, started, hist, readTag, entryTag>>

\* if _connection_pool is None: under the lock, then the construction: the
\* pool is stored, or the exception of the constructor is raised again; the
\* with block releases the lock either way
PoolConstruct(p) ==
    /\ frame[p] = "locked"
    /\ Release(p, pool_lock)
    /\ IF connection_pool # NoPool
       THEN /\ frame' = [frame EXCEPT ![p] = "returned"]
            /\ UNCHANGED <<connection_pool, faults>>
       ELSE \E ok \in BOOLEAN :
              /\ MayFail(ok)
              /\ Fault(ok)
              /\ IF ok
                 THEN /\ \E v \in PoolSizeSettings : connection_pool' = NewPool(v)
                      /\ frame' = [frame EXCEPT ![p] = "returned"]
                 ELSE /\ frame' = [frame EXCEPT ![p] = "raised"]
                      /\ UNCHANGED connection_pool
    /\ UNCHANGED <<Available_Books, Sales, book_cache, checkedOut, pc, form,
                   local, conn, resp, started, hist, readTag, entryTag>>

\* the exception of get_connection_pool() leaves get_db_connection() and the
\* view, which call it outside their try blocks: Flask answers with its
\* handler of error 500
InternalError(p) ==
    /\ frame[p] = "raised"
    /\ frame' = [frame EXCEPT ![p] = "none"]
    /\ Return(p, Respond(p, "internal_error"))
    /\ UNCHANGED <<Available_Books, Sales, book_cache, checkedOut, conn,
                   started, faults, hist, readTag, entryTag, holds,
                   connection_pool>>

GetConnectionPool(p) ==
    \/ PoolCheck(p) \/ PoolLock(p) \/ PoolConstruct(p) \/ InternalError(p)

(* ------------------------------ the cache ----------------------------- *)
Entry(book) == [book |-> book, age |-> 0]

\* a cache whose entries are still served at the age of CACHE_DURATION
CacheHit_at_duration(cache, book_id) ==
    book_id \in DOMAIN cache /\ cache[book_id].age <= CACHE_DURATION

\* get_cached_book(book_id): the book of a fresh entry, else None; an
\* expired entry is removed
CacheHit(cache, book_id) ==
    book_id \in DOMAIN cache /\ cache[book_id].age < CACHE_DURATION

CacheAfterGet(cache, book_id) ==
    IF book_id \in DOMAIN cache /\ ~(cache[book_id].age < CACHE_DURATION)
    THEN [x \in (DOMAIN cache) \ {book_id} |-> cache[x]]
    ELSE cache

\* a cache that keeps the entry an id already has
CacheBook_keeps_first(cache, book_id, e) ==
    IF book_id \in DOMAIN cache THEN cache ELSE Put(cache, book_id, e)

\* cache_book(book_id, book_data)
CacheBook(cache, book_id, e) == Put(cache, book_id, e)

\* with _cache_lock_book: the thread is at a call of get_cached_book,
\* cache_book or clear_book_cache and takes the lock
CacheCalls ==
    {"get_book_details", "get_put", "all_put", "sell_clear", "upd_clear",
     "add_clear", "cache_worker", "worker_get"}

WithCacheLock(p) ==
    /\ pc[p] \in CacheCalls
    /\ cache_lock_book \notin holds[p]
    /\ Acquire(p, cache_lock_book)
    /\ UNCHANGED <<Available_Books, Sales, book_cache, checkedOut, pc, form,
                   local, conn, resp, started, faults, hist, readTag, entryTag,
                   connection_pool, frame>>

\* the clock moves on by d minutes
Tick(d) ==
    /\ \E b \in DOMAIN book_cache : book_cache[b].age < CACHE_DURATION
    /\ book_cache' =
         [b \in DOMAIN book_cache |->
            [book_cache[b] EXCEPT !.age = Min(@ + d, CACHE_DURATION)]]
    /\ UNCHANGED <<Available_Books, Sales, checkedOut, pc, form, local, conn,
                   resp, started, faults, hist, readTag, entryTag>>
    /\ UNCHANGED <<holds, connection_pool, frame>>

(* --------------------------- get_book_details ------------------------- *)
\* the dictionary of SELECT BookName, Price, Quantity
Details(r) == [BookName |-> r.BookName, Price |-> r.Price, Quantity |-> r.Quantity]

\* a get_cached_book that gives the lock back on a hit only
GetCached_keeps_lock(p) ==
    /\ pc[p] = "get_book_details"
    /\ cache_lock_book \in holds[p]
    /\ LET book_id == form[p].book_id
       IN  /\ book_cache' = CacheAfterGet(book_cache, book_id)
           /\ entryTag' = [b \in DOMAIN book_cache' |-> entryTag[b]]
           /\ IF CacheHit(book_cache, book_id)
              THEN /\ Release(p, cache_lock_book)
                   /\ Return(p, [Respond(p, "ok") EXCEPT
                                   !.cached = TRUE,
                                   !.book = Details(book_cache[book_id].book)])
              ELSE /\ pc' = [pc EXCEPT ![p] = "get_conn"]
                   /\ UNCHANGED <<resp, form, local, holds>>
    /\ UNCHANGED <<Available_Books, Sales, checkedOut, conn, started, faults,
                   hist, readTag>>
    /\ UNCHANGED <<connection_pool, frame>>

\* cached_book = get_cached_book(book_id); if cached_book: return ...
GetCached(p) ==
    /\ pc[p] = "get_book_details"
    /\ cache_lock_book \in holds[p]
    /\ Release(p, cache_lock_book)
    /\ LET book_id == form[p].book_id
       IN  /\ book_cache' = CacheAfterGet(book_cache, book_id)
           /\ entryTag' = [b \in DOMAIN book_cache' |-> entryTag[b]]
           /\ IF CacheHit(book_cache, book_id)
              THEN Return(p, [Respond(p, "ok") EXCEPT
                                !.cached = TRUE,
                                !.book = Details(book_cache[book_id].book)])
              ELSE /\ pc' = [pc EXCEPT ![p] = "get_conn"]
                   /\ UNCHANGED <<resp, form, local>>
    /\ UNCHANGED <<Available_Books, Sales, checkedOut, conn, started, faults,
                   hist, readTag>>
    /\ UNCHANGED <<connection_pool, frame>>

\* conn = get_db_connection(); if not conn: return ..., 503
GetConnect(p) ==
    /\ pc[p] = "get_conn"
    /\ \E ok \in BOOLEAN :
         /\ MayFail(ok)
         /\ GetDbConnection(p, ok)
         /\ IF conn'[p].state = "none"
            THEN Return(p, Respond(p, "connection"))
            ELSE /\ pc' = [pc EXCEPT ![p] = "get_select"]
                 /\ UNCHANGED <<resp, form, local>>
    /\ UNCHANGED <<Available_Books, Sales, book_cache, started,
                   hist, readTag, entryTag>>
    /\ UNCHANGED <<holds, connection_pool>>

\* the SELECT, cursor.close(), conn.close()
GetSelect(p) ==
    /\ pc[p] = "get_select"
    /\ LET book_id == form[p].book_id
       IN  \E ok \in BOOLEAN :
             /\ MayFail(ok)
             /\ Fault(ok)
             /\ IF ~ok
                THEN Leak(p) /\ Return(p, Respond(p, "query_error"))
                ELSE LET rows == TxnRead(conn[p])
                     IN  /\ Close(p)
                         /\ IF book_id \in DOMAIN rows
                            THEN /\ local' = [local EXCEPT ![p] =
                                      [@ EXCEPT !.book = Details(rows[book_id])]]
                                 /\ pc' = [pc EXCEPT ![p] = "get_put"]
                                 /\ UNCHANGED <<resp, form>>
                            ELSE Return(p, Respond(p, "not_found"))
    /\ UNCHANGED <<Available_Books, Sales, book_cache, started,
                   hist, readTag, entryTag>>
    /\ UNCHANGED <<holds, connection_pool, frame>>

\* cache_book(book_id, book); return jsonify(...)
GetPut(p) ==
    /\ pc[p] = "get_put"
    /\ cache_lock_book \in holds[p]
    /\ Release(p, cache_lock_book)
    /\ book_cache' = CacheBook(book_cache, form[p].book_id, Entry(local[p].book))
    /\ entryTag' = Put(entryTag, form[p].book_id, readTag[p])
    /\ readTag' = [readTag EXCEPT ![p] = {}]
    /\ Return(p, [Respond(p, "ok") EXCEPT !.book = local[p].book])
    /\ UNCHANGED <<Available_Books, Sales, checkedOut, conn, started, faults,
                   hist>>
    /\ UNCHANGED <<connection_pool, frame>>

(* ---------------------------- get_all_books --------------------------- *)
BookOrder == <<A, B, C>>

InStock(rows) ==
    LET Keep(b) == b \in DOMAIN rows /\ rows[b].Quantity > 0
        ids == SelectSeq(BookOrder, Keep)
    IN  [k \in 1..Len(ids) |-> Row(ids[k], rows[ids[k]])]

\* conn = get_db_connection(); if not conn: return ..., 503
AllConnect(p) ==
    /\ pc[p] = "get_all_books"
    /\ \E ok \in BOOLEAN :
         /\ MayFail(ok)
         /\ GetDbConnection(p, ok)
         /\ IF conn'[p].state = "none"
            THEN Return(p, Respond(p, "connection"))
            ELSE /\ pc' = [pc EXCEPT ![p] = "all_select"]
                 /\ UNCHANGED <<resp, form, local>>
    /\ UNCHANGED <<Available_Books, Sales, book_cache, started,
                   hist, readTag, entryTag>>
    /\ UNCHANGED <<holds, connection_pool>>

\* SELECT ... WHERE Quantity > 0, cursor.close(), conn.close()
AllSelect(p) ==
    /\ pc[p] = "all_select"
    /\ \E ok \in BOOLEAN :
         /\ MayFail(ok)
         /\ Fault(ok)
         /\ IF ~ok
            THEN Leak(p) /\ Return(p, Respond(p, "error"))
            ELSE LET books == InStock(TxnRead(conn[p]))
                 IN  /\ Close(p)
                     /\ IF books # <<>>
                        THEN /\ local' = [local EXCEPT ![p] =
                                  [@ EXCEPT !.books = books, !.i = 1]]
                             /\ pc' = [pc EXCEPT ![p] = "all_put"]
                             /\ UNCHANGED <<resp, form>>
                        ELSE Return(p, Respond(p, "ok"))
    /\ UNCHANGED <<Available_Books, Sales, book_cache, started,
                   hist, readTag, entryTag>>
    /\ UNCHANGED <<holds, connection_pool, frame>>

\* one round of: for book in books: cache_book(book['Bookid'], book)
AllPut(p) ==
    /\ pc[p] = "all_put"
    /\ cache_lock_book \in holds[p]
    /\ Release(p, cache_lock_book)
    /\ LET l == local[p]
           book == l.books[l.i]
       IN  /\ book_cache' = CacheBook(book_cache, book.Bookid, Entry(book))
           /\ entryTag' = Put(entryTag, book.Bookid, readTag[p])
           /\ IF l.i < Len(l.books)
              THEN /\ local' = [local EXCEPT ![p].i = l.i + 1]
                   /\ UNCHANGED <<pc, resp, form, readTag>>
              ELSE /\ Return(p, Respond(p, "ok"))
                   /\ readTag' = [readTag EXCEPT ![p] = {}]
    /\ UNCHANGED <<Available_Books, Sales, checkedOut, conn, started, faults,
                   hist>>
    /\ UNCHANGED <<connection_pool, frame>>

(* -------------------------------- sales ------------------------------- *)
\* a record of SELECT transaction_id, CustomerName, PhoneNumber, BookName,
\* Quantity, Price, (Quantity * Price) as Subtotal FROM Sales
SalesRecord(row) ==
    [transaction_id |-> row.transaction_id, CustomerName |-> row.CustomerName,
     PhoneNumber |-> row.PhoneNumber, BookName |-> row.BookName,
     Quantity |-> row.Quantity, Price |-> row.Price,
     Subtotal |-> row.Quantity * row.Price]

\* ORDER BY SaleDate DESC: the latest row first
SalesRecords(rows) ==
    [k \in 1..Len(rows) |-> SalesRecord(rows[Len(rows) + 1 - k])]

\* transactions[txn_id] = {...} of the first record of a transaction
NewTransaction(record) ==
    [customer_name |-> record.CustomerName, phone_number |-> record.PhoneNumber,
     books |-> <<>>, total |-> 0]

\* the entry appended to transactions[txn_id]['books']
BookLine(record) ==
    [book_name |-> record.BookName, quantity |-> record.Quantity,
     price |-> record.Price, subtotal |-> record.Subtotal]

\* a ledger whose totals add the unit prices
Amount_unit_price(record) == record.Price

\* the amount added to the transaction's total and to total_sales
Amount(record) == record.Subtotal

\* for record in sales_records: the grouping by transaction_id
RECURSIVE GroupFrom(_, _, _)
GroupFrom(sales_records, k, transactions) ==
    IF k > Len(sales_records) THEN transactions
    ELSE LET record == sales_records[k]
             txn_id == record.transaction_id
             seen == IF txn_id \in DOMAIN transactions THEN transactions
                     ELSE Put(transactions, txn_id, NewTransaction(record))
         IN  GroupFrom(sales_records, k + 1,
                       [seen EXCEPT ![txn_id] =
                          [@ EXCEPT !.books = Append(@, BookLine(record)),
                                    !.total = @ + Amount(record)]])

RECURSIVE TotalFrom(_, _)
TotalFrom(sales_records, k) ==
    IF k > Len(sales_records) THEN 0
    ELSE Amount(sales_records[k]) + TotalFrom(sales_records, k + 1)

\* conn = get_db_connection(); without a connection the page shows no
\* transactions
SalesConnect(p) ==
    /\ pc[p] = "sales"
    /\ \E ok \in BOOLEAN :
         /\ MayFail(ok)
         /\ GetDbConnection(p, ok)
         /\ IF conn'[p].state = "none"
            THEN Return(p, Respond(p, "ok"))
            ELSE /\ pc' = [pc EXCEPT ![p] = "sales_select"]
                 /\ UNCHANGED <<resp, form, local>>
    /\ UNCHANGED <<Available_Books, Sales, book_cache, started,
                   hist, readTag, entryTag>>
    /\ UNCHANGED <<holds, connection_pool>>

\* the SELECT, the grouping, cursor.close(), conn.close(), render_template
SalesSelect(p) ==
    /\ pc[p] = "sales_select"
    /\ \E ok \in BOOLEAN :
         /\ MayFail(ok)
         /\ Fault(ok)
         /\ IF ~ok
            THEN Leak(p) /\ Return(p, Respond(p, "error"))
            ELSE LET sales_records == SalesRecords(Sales)
                 IN  /\ Close(p)
                     /\ Return(p, [Respond(p, "ok") EXCEPT
                                     !.transactions = GroupFrom(sales_records, 1, EmptyFn),
                                     !.total_sales = TotalFrom(sales_records, 1)])
    /\ UNCHANGED <<Available_Books, Sales, book_cache, started,
                   hist, readTag, entryTag>>
    /\ UNCHANGED <<holds, connection_pool, frame>>

SalesView(p) == SalesConnect(p) \/ SalesSelect(p)

(* ---------------------------- cache_worker ---------------------------- *)
\* the book_data a worker is started with
BookData(f) == [BookName |-> f.book_name, Price |-> 100, Quantity |-> 10]

\* cache_book(book_id, book_data)
WorkerPut(p) ==
    /\ pc[p] = "cache_worker"
    /\ cache_lock_book \in holds[p]
    /\ Release(p, cache_lock_book)
    /\ book_cache' = CacheBook(book_cache, form[p].book_id, Entry(BookData(form[p])))
    /\ entryTag' = Put(entryTag, form[p].book_id, readTag[p])
    /\ pc' = [pc EXCEPT ![p] = "worker_get"]
    /\ UNCHANGED <<Available_Books, Sales, checkedOut, form, local, conn, resp,
                   started, faults, hist, readTag, connection_pool, frame>>

\* cached = get_cached_book(book_id); the worker ends
WorkerGet(p) ==
    /\ pc[p] = "worker_get"
    /\ cache_lock_book \in holds[p]
    /\ Release(p, cache_lock_book)
    /\ LET book_id == form[p].book_id
       IN  /\ book_cache' = CacheAfterGet(book_cache, book_id)
           /\ entryTag' = [b \in DOMAIN book_cache' |-> entryTag[b]]
           /\ IF CacheHit(book_cache, book_id)
              THEN Return(p, [Respond(p, "hit") EXCEPT
                                !.detail = book_id,
                                !.book = book_cache[book_id].book])
              ELSE Return(p, [Respond(p, "miss") EXCEPT !.detail = book_id])
    /\ UNCHANGED <<Available_Books, Sales, checkedOut, conn, started, faults,
                   hist, readTag, connection_pool, frame>>

CacheWorker(p) == WorkerPut(p) \/ WorkerGet(p)

(* --------------------------- specification ---------------------------- *)
TickSteps == {CACHE_DURATION}

Sell(p) ==
    \/ SellConnect(p) \/ SellCheckForm(p) \/ SellValidate(p)
    \/ SellInsert(p) \/ SellUpdate(p) \/ SellCommit(p) \/ SellClear(p)

UpdateStock(p) ==
    \/ UpdBegin(p) \/ UpdSelect(p) \/ UpdUpdate(p) \/ UpdCommit(p) \/ UpdClear(p)

AddBook(p) ==
    \/ AddBegin(p) \/ AddInsert(p) \/ AddCommit(p) \/ AddClear(p)

GetBookDetails(p) ==
    \/ GetCached(p) \/ GetConnect(p) \/ GetSelect(p) \/ GetPut(p)

GetAllBooks(p) ==
    \/ AllConnect(p) \/ AllSelect(p) \/ AllPut(p)

AllForms ==
    SellForms \cup UpdateForms \cup AddForms \cup GetForms
      \cup {AllForm, SalesForm}

Next ==
    \/ \E p \in Threads :
         \/ Begin(p, AllForms, MaxRequests)
         \/ Sell(p) \/ UpdateStock(p) \/ AddBook(p) \/ DeadlockAbort(p)
         \/ GetBookDetails(p) \/ GetAllBooks(p) \/ WithCacheLock(p)
         \/ SalesView(p)
    \/ \E d \in TickSteps : Tick(d)

Spec == Init /\ [][Next]_vars

\* concurrent sales and stock updates
StoreForms == GoodSales \cup BadSales \cup StockUpdates

NextStore ==
    \E p \in Threads :
       \/ Begin(p, StoreForms, MaxRequests)
       \/ Sell(p) \/ UpdateStock(p) \/ DeadlockAbort(p) \/ WithCacheLock(p)

SpecStore == Init /\ [][NextStore]_vars

\* concurrent additions of books
NextAdd ==
    \E p \in Threads : Begin(p, AddForms, MaxRequests) \/ AddBook(p) \/ WithCacheLock(p)

SpecAdd == Init /\ [][NextAdd]_vars

\* one request at a time: a request is taken up when no other is running
Lookups == {GetForm(A), AllForm}

SeqForms == StoreForms \cup NewBooks \cup Lookups

BeginAlone(p) ==
    /\ \A q \in Threads : pc[q] = "idle"
    /\ Begin(p, SeqForms, MaxSeqRequests)

NextSeq ==
    \/ \E p \in Threads :
         \/ BeginAlone(p)
         \/ Sell(p) \/ UpdateStock(p) \/ AddBook(p)
         \/ GetBookDetails(p) \/ GetAllBooks(p) \/ WithCacheLock(p)
    \/ \E d \in TickSteps : Tick(d)

SpecSeq == Init /\ [][NextSeq]_vars

\* lookups that run while sales, stock updates and additions commit
CacheForms ==
    { Sale(<<A>>, <<<<"1">>>>), Sale(<<A, C>>, <<<<"1">>, <<"1">>>>),
      UpdateForm(A, <<"add">>, <<"1">>), UpdateForm(A, <<"subtract">>, <<"2">>),
      AddForm(C, <<"C">>, <<"1">>, <<"7">>), AddForm(A, <<"Z">>, <<"2">>, <<"7">>) }
      \cup Lookups

NextCache ==
    \/ \E p \in Threads :
         \/ Begin(p, CacheForms, MaxRequests)
         \/ Sell(p) \/ UpdateStock(p) \/ AddBook(p)
         \/ GetBookDetails(p) \/ GetAllBooks(p) \/ WithCacheLock(p)
    \/ \E d \in TickSteps : Tick(d)

SpecCache == Init /\ [][NextCache]_vars

\* a production start: no init_db() has run, the first requests find
\* _connection_pool unset
InitProduction ==
    /\ Available_Books =
         [id \in {A, B} |->
            IF id = A THEN [BookName |-> <<"A">>, Quantity |-> MaxStock, Price |-> 100]
            ELSE [BookName |-> <<"B">>, Quantity |-> 1, Price |-> 150]]
    /\ Sales = <<>>
    /\ book_cache = EmptyFn
    /\ checkedOut = 0
    /\ pc = [p \in Threads |-> "idle"]
    /\ form = [p \in Threads |-> NoForm]
    /\ local = [p \in Threads |-> NoLocal]
    /\ conn = [p \in Threads |-> NoConn]
    /\ resp = [p \in Threads |-> NoResp]
    /\ started = 0
    /\ faults = 0
    /\ hist = [p \in Threads |-> NoHist]
    /\ readTag = [p \in Threads |-> {}]
    /\ entryTag = EmptyFn
    /\ holds = [p \in Threads |-> {}]
    /\ connection_pool = NoPool
    /\ frame = [p \in Threads |-> "none"]

ProductionForms ==
    { Sale(<<A>>, <<<<"1">>>>), UpdateForm(A, <<"add">>, <<"1">>),
      UpdateForm(A, <<"set">>, <<"1">>), AddForm(C, <<"C">>, <<"1">>, <<"7">>),
      GetForm(A), AllForm }

NextProduction ==
    \E p \in Threads :
       \/ Begin(p, ProductionForms, MaxRequests)
       \/ GetConnectionPool(p)
       \/ Sell(p) \/ UpdateStock(p) \/ AddBook(p)
       \/ GetBookDetails(p) \/ GetAllBooks(p) \/ WithCacheLock(p)

SpecProduction == InitProduction /\ [][NextProduction]_vars

\* the workers of test_cache_thread_safety, each thread with a key of its
\* own
Key(p) == IF p = "t1" THEN A ELSE C

WorkerForms ==
    [p \in Threads |-> {WorkerForm(Key(p), <<"X">>), WorkerForm(Key(p), <<"Y">>)}]

NextWorkers ==
    \E p \in Threads :
       \/ Begin(p, WorkerForms[p], MaxRequests)
       \/ CacheWorker(p) \/ WithCacheLock(p)

SpecWorkers == Init /\ [][NextWorkers]_vars

\* workers and lookups of a third book while the clock moves on
ClockSteps == {1, 2}

ClockForms ==
    [p \in Threads |-> WorkerForms[p] \cup {GetForm(B), GetForm(<<"d">>)}]

NextClock ==
    \/ \E p \in Threads :
         \/ Begin(p, ClockForms[p], MaxRequests)
         \/ CacheWorker(p) \/ GetBookDetails(p) \/ WithCacheLock(p)
    \/ \E d \in ClockSteps : Tick(d)

SpecClock == Init /\ [][NextClock]_vars

\* the ledger read between sales, one request at a time
LedgerForms ==
    { Sale(<<A>>, <<<<"2">>>>), Sale(<<A>>, <<<<"1">>>>),
      Sale(<<A, B>>, <<<<"1">>, <<"1">>>>), SalesForm }

BeginLedger(p) ==
    /\ \A q \in Threads : pc[q] = "idle"
    /\ Begin(p, LedgerForms, MaxSeqRequests)

NextLedger ==
    \E p \in Threads :
       \/ BeginLedger(p)
       \/ Sell(p) \/ SalesView(p) \/ WithCacheLock(p)

SpecLedger == Init /\ [][NextLedger]_vars

\* sales that differ in the phone number entered
Phones ==
    { Phone10,
      <<" ", "9", "8", "7", "6", "5", "4", "3", "2", "1", "0", " ">>,
      <<"9", "8", "7", "6", "5", "4", "3", "2", "1">>,
      <<"9", "8", "7", "6", "5", "4", "3", "2", "1", "0", "0">>,
      <<"9", "8", "7", "6", "5", "4", "3", "2", "1", "x">>,
      <<"9", "8", "7", "6", "5", "4", "3", "2", "1", "sup2">>,
      <<"+", "8", "7", "6", "5", "4", "3", "2", "1", "0">> }

PhoneForms == { SellForm(<<"n">>, ph, <<A>>, <<<<"1">>>>) : ph \in Phones }

NextPhone ==
    \E p \in Threads :
       \/ Begin(p, PhoneForms, MaxRequests)
       \/ Sell(p) \/ DeadlockAbort(p) \/ WithCacheLock(p)

SpecPhone == Init /\ [][NextPhone]_vars

\* sales that differ in their line items
NextSell ==
    \E p \in Threads :
       \/ Begin(p, FilterSales, MaxRequests)
       \/ Sell(p) \/ DeadlockAbort(p) \/ WithCacheLock(p)

SpecSell == Init /\ [][NextSell]_vars

\* requests without a session to every protected route, next to requests of
\* a logged-in user
Routes ==
    { Sale(<<A>>, <<<<"1">>>>), UpdateForm(A, <<"add">>, <<"1">>),
      AddForm(C, <<"C">>, <<"1">>, <<"7">>), GetForm(A), AllForm, SalesForm,
      PageForm("dashboard"), PageForm("stock"), PageForm("logout"),
      PageForm("sell") }

LoginForms ==
    { Anonymous(f) : f \in Routes }
      \cup { Sale(<<A>>, <<<<"1">>>>), GetForm(A) }

NextLogin ==
    \E p \in Threads :
       \/ Begin(p, LoginForms, MaxRequests)
       \/ Unauthorized(p)
       \/ Sell(p) \/ DeadlockAbort(p) \/ GetBookDetails(p) \/ WithCacheLock(p)

SpecLogin == Init /\ [][NextLogin]_vars

\* each thread serves one request: sales of book a and additions to its
\* stock
TallyForms ==
    { Sale(<<A>>, <<<<"1">>>>), UpdateForm(A, <<"add">>, <<"1">>) }

NextTally ==
    \E p \in Threads :
       \/ resp[p].op = "none" /\ Begin(p, TallyForms, MaxRequests)
       \/ Sell(p) \/ UpdateStock(p) \/ DeadlockAbort(p) \/ WithCacheLock(p)

\* concurrent sales and stock updates, each request on a thread of its own
\* that the server keeps running: a handler step that stays possible is
\* taken; nothing obliges a statement to raise
LiveForms ==
    { Sale(<<A, B>>, <<<<"1">>, <<"1">>>>),
      Sale(<<B, A>>, <<<<"1">>, <<"1">>>>),
      Sale(<<A, C>>, <<<<"1">>, <<"1">>>>),
      UpdateForm(A, <<"add">>, <<"1">>) }

NextLive ==
    \E p \in Threads :
       \/ Begin(p, LiveForms, MaxRequests)
       \/ Sell(p) \/ UpdateStock(p) \/ DeadlockAbort(p) \/ WithCacheLock(p)

SpecLive ==
    /\ Init /\ [][NextLive]_vars
    /\ \A p \in Threads :
          WF_vars(/\ \/ Sell(p) \/ UpdateStock(p)
                     \/ DeadlockAbort(p) \/ WithCacheLock(p)
                  /\ faults' = faults)

\* one sale at a time while lookups and cache workers fill book_cache with
\* entries of the store and entries of their own, and the clock expires them
IndepForms ==
    { Sale(<<A>>, <<<<"1">>>>), Sale(<<A>>, <<<<"3">>>>),
      Sale(<<A, B>>, <<<<"1">>, <<"1">>>>), Sale(<<A, C>>, <<<<"1">>, <<"1">>>>),
      Sale(<<A, A>>, <<<<"1">>, <<"1">>>>), Sale(<<A, B>>, <<<<"1">>, <<"x">>>>),
      GetForm(A), WorkerForm(A, <<"X">>) }

BeginIndep(p) ==
    /\ Begin(p, IndepForms, MaxSeqRequests)
    /\ form'[p].op = "sell" => \A q \in Threads \ {p} : form[q].op # "sell"

NextIndep ==
    \/ \E p \in Threads :
         \/ BeginIndep(p)
         \/ Sell(p) \/ GetBookDetails(p) \/ CacheWorker(p) \/ WithCacheLock(p)
    \/ \E d \in TickSteps : Tick(d)

SpecIndep == Init /\ [][NextIndep]_vars

\* book a starts with MaxStock units
InitTally == Init /\ Available_Books[A].Quantity = MaxStock

SpecTally == InitTally /\ [][NextTally]_vars

(* ------------------------------- claims ------------------------------- *)
StepOf(p) == pc'[p] # pc[p] \/ local'[p] # local[p] \/ conn'[p] # conn[p]

\* the step in which the transaction of thread p is committed
Commits(p) == ~hist[p].committed /\ hist'[p].committed

ValidationFailures ==
    {"duplicate", "invalid_quantity", "nonpositive_quantity", "not_found",
     "insufficient"}

\* the sale of thread p becomes visible as a whole: one row per line of
\* books_to_sell appended to Sales, each line's quantity taken off its book
SaleApplied(p) ==
    LET l == local[p]
        bs == l.books_to_sell
        Sold(b) == {k \in 1..Len(bs) : bs[k].book_id = b}
    IN  /\ pc[p] = "sell_commit"
        /\ Commits(p)
        /\ Len(Sales') = Len(Sales) + Len(bs)
        /\ SubSeq(Sales', 1, Len(Sales)) = Sales
        /\ \A k \in 1..Len(bs) :
             Sales'[Len(Sales) + k] =
               SaleRow(l.transaction_id, Strip(form[p].customer_name),
                       Strip(form[p].phone_number), bs[k])
        /\ DOMAIN Available_Books' = DOMAIN Available_Books
        /\ \A b \in DOMAIN Available_Books :
             /\ Cardinality(Sold(b)) <= 1
             /\ Available_Books'[b] =
                  [Available_Books[b] EXCEPT
                     !.Quantity = IF Sold(b) = {} THEN @
                                  ELSE @ - bs[CHOOSE k \in Sold(b) : TRUE].quantity]

\* C1: in every reachable state, under every interleaving of concurrent
\* sell and update_stock requests, every Available_Books row has
\* Quantity >= 0 (no oversell).
C1_QuantityNeverNegative ==
    \A b \in DOMAIN Available_Books : Available_Books[b].Quantity >= 0

\* C2: a sale is all-or-nothing for observers: the committed Sales table
\* changes only in the step that commits a sale, which adds all rows of the
\* sale and takes every line's quantity off its book, and no step of a sell
\* request changes Available_Books otherwise.
C2_SaleAllOrNothing ==
    [][ /\ (Sales' # Sales => \E p \in Threads : SaleApplied(p))
        /\ \A p \in Threads :
             (form[p].op = "sell" /\ StepOf(p) /\ Available_Books' # Available_Books)
                => SaleApplied(p) ]_vars

C2_Witness ==
    \E p \in Threads :
       /\ pc[p] = "sell_clear"
       /\ Len(local[p].books_to_sell) = 2
       /\ Len(Sales) >= 2

\* C3: a sell request that ends in a validation failure (book not found,
\* insufficient stock, quantity not a positive integer, repeated book id)
\* has written nothing: it is rejected while it checks its form or validates
\* its lines, no step of a sell request up to the end of validation changes
\* Sales or Available_Books or leaves a pending row or update in its
\* transaction (however many lines have passed), validation is never
\* re-entered after the first write, and the rejecting step itself changes
\* neither table.
C3_ValidationFailureWritesNothing ==
    [][ \A p \in Threads :
          (form[p].op = "sell" /\ StepOf(p)) =>
             /\ (pc'[p] = "idle" /\ resp'[p].kind \in ValidationFailures)
                   => pc[p] \in {"sell_form", "sell_validate"}
             /\ pc[p] \in {"sell", "sell_form", "sell_validate"}
                   => /\ Sales' = Sales
                      /\ Available_Books' = Available_Books
                      /\ conn'[p].ins = <<>>
                      /\ XLocked(conn'[p]) = {}
                      /\ ~hist'[p].committed
             /\ pc[p] \in {"sell_insert", "sell_update", "sell_commit", "sell_clear"}
                   => pc'[p] \notin {"sell", "sell_form", "sell_validate"} ]_vars

\* the second line (book c) failed after the first line had passed
C3_Witness ==
    \E p \in Threads :
       /\ resp[p].op = "sell"
       /\ resp[p].kind = "not_found"
       /\ resp[p].detail = C

\* C4: when an INSERT into Sales, an UPDATE of Available_Books or the commit
\* fails during the persistence phase of a sale, the handler rolls back:
\* the step leaves Sales and Available_Books as they are, drops the
\* transaction with its pending rows and locks, and nothing of the sale is
\* committed.
C4_PersistenceFailureRollsBack ==
    [][ \A p \in Threads :
          (pc[p] \in {"sell_insert", "sell_update", "sell_commit"}
             /\ pc'[p] = "idle" /\ ~Commits(p))
          => /\ resp'[p].kind = "error"
             /\ Sales' = Sales
             /\ Available_Books' = Available_Books
             /\ conn'[p] = NoConn ]_vars

\* a statement of the persistence phase, or the commit, failed
C4_Witness ==
    \E p \in Threads :
       /\ resp[p].op = "sell"
       /\ resp[p].kind = "error"
       /\ resp[p].phase = "persisting"

RECURSIVE LinesTotal(_, _, _)
LinesTotal(ids, qtys, rows) ==
    IF ids = <<>> THEN 0
    ELSE IntValue(Head(qtys)) * rows[Head(ids)].Price
           + LinesTotal(Tail(ids), Tail(qtys), rows)

\* C5: for a sell request whose lines all pass validation, the total is the
\* sum over its lines of requested quantity x price read during validation,
\* the commit writes exactly one Sales row per line with that quantity and
\* price, all rows carry the request's one transaction identifier, and the
\* response reports that total and identifier.
C5_TotalAndRows ==
    [][ \A p \in Threads :
          /\ (pc[p] = "sell_commit" /\ Commits(p)) =>
               LET f == SellFilter(form[p].book_ids, form[p].quantities)
                   l == local[p]
                   read == conn[p].snap
               IN  /\ l.total_amount = LinesTotal(f.ids, f.qtys, read)
                   /\ Len(Sales') = Len(Sales) + Len(f.ids)
                   /\ \A k \in 1..Len(f.ids) :
                        LET row == Sales'[Len(Sales) + k]
                        IN  /\ row.Bookid = f.ids[k]
                            /\ row.Quantity = IntValue(f.qtys[k])
                            /\ row.Price = read[f.ids[k]].Price
                            /\ row.transaction_id = l.transaction_id
          /\ (pc[p] = "sell_clear" /\ pc'[p] = "idle") =>
               /\ resp'[p].kind = "sold"
               /\ resp'[p].total = local[p].total_amount
               /\ resp'[p].transaction_id = local[p].transaction_id ]_vars

\* a two-line sale, 1 x 100 + 1 x 150, reported
C5_Witness ==
    \E p \in Threads :
       /\ resp[p].kind = "sold"
       /\ resp[p].total = 250
       /\ Len(Sales) >= 2

\* C6: update_stock never stores a negative Quantity: a rejected request
\* (unknown book, subtracting more than the stock) changes no row, and an
\* accepted add/subtract of amount d changes exactly that book's Quantity by
\* +d/-d.
C6_UpdateStockExact ==
    [][ \A p \in Threads :
          (form[p].op = "update_stock" /\ StepOf(p)) =>
             IF pc[p] = "upd_commit" /\ Commits(p)
             THEN LET b == Strip(form[p].book_id)
                      d == IF Strip(form[p].action) = <<"add">>
                           THEN local[p].quantity ELSE 0 - local[p].quantity
                  IN  /\ Available_Books' =
                           [Available_Books EXCEPT ![b].Quantity = @ + d]
                      /\ Available_Books'[b].Quantity >= 0
             ELSE Available_Books' = Available_Books ]_vars

\* C7: add_book of an identifier that exists ends in the duplicate-key
\* outcome and changes no row; add_book of a new identifier inserts exactly
\* one row, with the given name and the given non-negative quantity and
\* price, and changes no other row.
C7_AddBookDuplicateOrInsert ==
    [][ \A p \in Threads :
          (form[p].op = "add_book" /\ StepOf(p)) =>
             LET b == Strip(form[p].book_id)
                 row == NewBook(Strip(form[p].book_name),
                                IntValue(Strip(form[p].quantity)),
                                IntValue(Strip(form[p].price)))
             IN  /\ Sales' = Sales
                 /\ (pc[p] = "add_insert" /\ b \in DOMAIN Available_Books
                        /\ faults' = faults)
                       => pc'[p] = "idle" /\ resp'[p].kind = "duplicate"
                 /\ resp'[p].kind = "duplicate" => b \in DOMAIN Available_Books
                 /\ IF pc[p] = "add_commit" /\ Commits(p)
                    THEN /\ b \notin DOMAIN Available_Books
                         /\ Available_Books' = Put(Available_Books, b, row)
                         /\ row.Quantity >= 0 /\ row.Price >= 0
                    ELSE Available_Books' = Available_Books ]_vars

\* one request added book c, another was refused the existing id a
C7_Witness ==
    \E p, q \in Threads :
       /\ resp[p].op = "add_book" /\ resp[p].kind = "duplicate"
       /\ resp[q].op = "add_book" /\ resp[q].kind = "added"
       /\ C \in DOMAIN Available_Books
       /\ Available_Books[A].BookName = <<"A">>

\* C8: in sell, add_book and update_stock an execution that has committed
\* a change does not return before it has called clear_book_cache, which it
\* calls only after the commit; so, with one request at a time, a lookup of
\* one book answers with the committed row, never with an older snapshot.
C8_ClearedBeforeReturn ==
    [][ \A p \in Threads :
          /\ (pc'[p] = "idle" /\ hist'[p].committed) => hist'[p].cleared
          /\ (~hist[p].cleared /\ hist'[p].cleared) => hist[p].committed
          /\ (form[p].op = "get_book_details" /\ pc'[p] = "idle"
                 /\ resp'[p].kind = "ok")
               => /\ form[p].book_id \in DOMAIN Available_Books
                  /\ resp'[p].book = Details(Available_Books[form[p].book_id])
      ]_vars

\* C9: once the clear_book_cache of a mutating request has completed, the
\* cache holds no entry that was read from the store before that request's
\* commit and carries another quantity than the committed row, so that no
\* later cache hit returns the pre-commit quantity.
C9_NoPreCommitEntryAfterClear ==
    \A b \in DOMAIN book_cache :
       "late" \in entryTag[b] =>
          /\ b \in DOMAIN Available_Books
          /\ book_cache[b].book.Quantity = Available_Books[b].Quantity

Mutating == {"sell", "add_book", "update_stock"}

Successes == {"sold", "added", "updated"}

\* the step in which thread p completes clear_book_cache
Clears(p) == ~hist[p].cleared /\ hist'[p].cleared

\* C10: a sell, add_book or update_stock request touches the book cache
\* only by the clear_book_cache that follows its successful commit: every
\* other step of it leaves the cache as it is, and a request that ends in a
\* failure has not cleared the cache.
C10_FailureLeavesCache ==
    [][ \A p \in Threads :
          (form[p].op \in Mutating /\ StepOf(p)) =>
             /\ Clears(p) => hist[p].committed
             /\ ~Clears(p) => book_cache' = book_cache
             /\ (pc'[p] = "idle" /\ resp'[p].kind \notin Successes)
                   => book_cache' = book_cache /\ ~hist'[p].cleared ]_vars

\* a mutating request has failed and the cache still holds an entry
C10_Witness ==
    \E p \in Threads :
       /\ resp[p].op \in Mutating
       /\ resp[p].kind \notin Successes
       /\ book_cache # EmptyFn

\* the step in which thread p runs get_cached_book
Gets(p) == pc[p] \in {"get_book_details", "worker_get"} /\ pc'[p] # pc[p]

\* what the step hands to the caller: the snapshot stored under k (the worker
\* reports it, get_book_details answers from it), or None (the worker
\* reports a miss, get_book_details goes on to the store)
GotSnapshot(p, k) ==
    IF form[p].op = "cache_worker"
    THEN resp'[p].kind = "hit" /\ resp'[p].book = book_cache[k].book
    ELSE /\ pc'[p] = "idle" /\ resp'[p].cached
         /\ resp'[p].book = Details(book_cache[k].book)

GotNone(p) ==
    IF form[p].op = "cache_worker"
    THEN resp'[p].kind = "miss"
    ELSE pc'[p] = "get_conn"

\* C11: get_cached_book(id) returns the stored snapshot if and only if an
\* entry for id exists and its age is less than 5 minutes, and then leaves
\* the cache as it is; at an age of 5 minutes or more it returns None and
\* removes that entry and no other; without an entry it returns None and
\* changes nothing.
C11_GetCachedBook ==
    [][ \A p \in Threads :
          Gets(p) =>
             LET k == form[p].book_id
                 stored == k \in DOMAIN book_cache
             IN  IF stored /\ book_cache[k].age < 5
                 THEN GotSnapshot(p, k) /\ book_cache' = book_cache
                 ELSE /\ GotNone(p)
                      /\ DOMAIN book_cache' = (DOMAIN book_cache) \ {k}
                      /\ \A x \in DOMAIN book_cache' : book_cache'[x] = book_cache[x]
                      /\ ~stored => book_cache' = book_cache ]_vars

\* a worker found its entry expired: the entry is gone, another one is kept
C11_Witness ==
    \E p \in Threads :
       /\ resp[p].op = "cache_worker"
       /\ resp[p].kind = "miss"
       /\ resp[p].detail \notin DOMAIN book_cache
       /\ book_cache # EmptyFn

\* C12: cache_book(id, snapshot) followed by get_cached_book(id) of the same
\* worker, with no clear in between, returns that snapshot while the entry is
\* younger than the TTL, whatever was put under other ids in between; every
\* cache_book stores its snapshot under its id with age 0, replacing what
\* was there, and leaves the entries of other ids as they are.
C12_PutThenGet ==
    [][ \A p \in Threads :
          LET k == form[p].book_id
          IN  /\ (pc[p] = "cache_worker" /\ pc'[p] = "worker_get") =>
                   /\ DOMAIN book_cache' = (DOMAIN book_cache) \cup {k}
                   /\ book_cache'[k] = [book |-> BookData(form[p]), age |-> 0]
                   /\ \A x \in (DOMAIN book_cache) \ {k} :
                        book_cache'[x] = book_cache[x]
              /\ (pc[p] = "worker_get" /\ pc'[p] = "idle") =>
                   /\ k \in DOMAIN book_cache
                   /\ book_cache[k].book = BookData(form[p])
                   /\ book_cache[k].age < 5 =>
                        /\ resp'[p].kind = "hit"
                        /\ resp'[p].book = BookData(form[p]) ]_vars

\* a worker got its snapshot back after time had passed and another id had
\* been put in between
C12_Witness ==
    \E p \in Threads :
       /\ resp[p].op = "cache_worker"
       /\ resp[p].kind = "hit"
       /\ resp[p].detail \in DOMAIN book_cache
       /\ \E x \in DOMAIN book_cache :
            /\ x # resp[p].detail
            /\ book_cache[x].age < book_cache[resp[p].detail].age

\* the step in which thread p runs cache_book
Puts(p) ==
    /\ pc[p] \in {"get_put", "all_put", "cache_worker"}
    /\ StepOf(p)

\* C13: the step that completes clear_book_cache leaves the cache without
\* any entry, whatever the ages of the entries before, so that no id is a
\* cache hit; on an empty cache it changes nothing; and an id that is not in
\* the cache gets an entry only by a later cache_book.
C13_ClearEmptiesCache ==
    [][ /\ \A p \in Threads :
             Clears(p) =>
                /\ book_cache' = EmptyFn
                /\ \A id \in {A, B, C} : ~CacheHit(book_cache', id)
                /\ book_cache = EmptyFn => book_cache' = book_cache
        /\ (DOMAIN book_cache') \ (DOMAIN book_cache) # {}
              => \E p \in Threads : Puts(p) ]_vars

\* a request that has committed holds the cache lock for its clear while the
\* cache holds an expired entry and a fresh one
C13_Witness ==
    \E p \in Threads :
       /\ pc[p] \in {"sell_clear", "upd_clear", "add_clear"}
       /\ cache_lock_book \in holds[p]
       /\ \E x, y \in DOMAIN book_cache :
            /\ book_cache[x].age = 0
            /\ book_cache[y].age >= CACHE_DURATION

\* C14: with workers running cache_book(k, v) then get_cached_book(k)
\* concurrently on keys of their own, no clear and no expiry, every worker's
\* get returns its own v, and whenever a worker has finished the cache maps
\* its key to the snapshot it put (no lost update), under every
\* interleaving.
C14_WorkersSeeOwnWrites ==
    /\ [][ \A p \in Threads :
             (pc[p] = "worker_get" /\ pc'[p] = "idle") =>
                /\ resp'[p].kind = "hit"
                /\ resp'[p].detail = Key(p)
                /\ resp'[p].book = BookData(form[p]) ]_vars
    /\ [](\A p \in Threads :
            (pc[p] = "idle" /\ resp[p].op = "cache_worker") =>
               /\ Key(p) \in DOMAIN book_cache
               /\ book_cache[Key(p)].book = resp[p].book)

\* both workers have finished and the cache holds both keys
C14_Witness ==
    /\ \A p \in Threads :
          /\ pc[p] = "idle"
          /\ resp[p].op = "cache_worker"
          /\ resp[p].kind = "hit"
    /\ DOMAIN book_cache = {Key(p) : p \in Threads}

\* C15: in every reachable state a thread that holds _cache_lock_book is
\* inside get_cached_book, cache_book or clear_book_cache: it is not
\* acquiring a pooled connection (neither in get_connection_pool nor at
\* get_db_connection), has no connection on which a statement could run and
\* does not hold the pool lock; and at most one thread holds the cache lock.
C15_CacheLockOnlyAroundMap ==
    /\ \A p \in Threads :
          cache_lock_book \in holds[p] =>
             /\ pc[p] \in CacheCalls
             /\ ~Connecting(p)
             /\ frame[p] = "none"
             /\ conn[p] = NoConn
             /\ pool_lock \notin holds[p]
    /\ Cardinality({p \in Threads : cache_lock_book \in holds[p]}) <= 1

\* one thread is inside a cache operation while the other runs a statement
\* on its connection
C15_Witness ==
    \E p, q \in Threads :
       /\ cache_lock_book \in holds[p]
       /\ pc[p] = "get_put"
       /\ conn[q].state = "open"
       /\ pc[q] \in {"get_select", "all_select", "upd_update"}

\* C16: under every interleaving of first calls of get_connection_pool the
\* pool is constructed at most once: _connection_pool changes only from
\* None to the first pool, in a step of a thread that holds _pool_lock and
\* found it None under the lock, and every call that returns hands out that
\* first pool.
C16_PoolConstructedOnce ==
    /\ [](connection_pool.id <= 1)
    /\ [][ /\ connection_pool' # connection_pool =>
                /\ connection_pool = NoPool
                /\ \E p \in Threads :
                      /\ frame[p] = "locked"
                      /\ pool_lock \in holds[p]
                      /\ frame'[p] = "returned"
           /\ \A p \in Threads :
                 (frame'[p] = "returned" \/ conn'[p].state = "open")
                    => connection_pool'.id = 1 ]_vars

\* a thread that found the pool unset without the lock holds the lock after
\* the other thread has constructed the pool
C16_Witness ==
    \E p \in Threads :
       /\ frame[p] = "locked"
       /\ pool_lock \in holds[p]
       /\ connection_pool # NoPool

\* the outcomes of the handlers' own "if not conn" branches
ConnectionErrors == {"conn_error", "connection"}

\* C17: a request that is in get_db_connection and cannot obtain a
\* connection (pool exhausted, server unreachable, pool not constructible)
\* is handed None, never an exception: get_connection_pool does not raise
\* into it, and when the request ends at that call it ends in its handler's
\* connection-error branch.
C17_UnavailableIsNone ==
    [][ \A p \in Threads :
          /\ frame'[p] # "raised"
          /\ ((Connecting(p) \/ frame[p] # "none") /\ pc'[p] = "idle")
                => resp'[p].kind \in ConnectionErrors ]_vars

\* the settings of DB_POOL_SIZE that are an integer, with the integer each
\* stands for (blanks around the digits do not count)
IntegerSettings ==
    { <<<<"1">>, 1>>, <<<<"2">>, 2>>, <<<<"1", "0", "0">>, 100>>,
      <<<<"0">>, 0>>, <<<<"1", "0", "1">>, 101>>, <<<<"-", "1">>, 0 - 1>>,
      <<<<" ", "2">>, 2>> }

\* C18: the pool is constructed with the configured DB_POOL_SIZE when that
\* is an integer from 1 to 100, both ends included, and with 10 in every
\* other case (not set, below 1, above 100, not a number).
C18_PoolSizeUsed ==
    connection_pool # NoPool =>
       LET v == connection_pool.DB_POOL_SIZE
           ok == {s \in IntegerSettings : s[1] = v /\ s[2] >= 1 /\ s[2] <= 100}
       IN  /\ ok # {} => \A s \in ok : connection_pool.pool_size = s[2]
           /\ ok = {} => connection_pool.pool_size = 10

\* a pool constructed with DB_POOL_SIZE=1 is exhausted: one connection is
\* out and a request was refused one although no call failed
C18_Witness ==
    /\ connection_pool.DB_POOL_SIZE = <<"1">>
    /\ connection_pool.pool_size = 1
    /\ checkedOut = 1
    /\ faults = 0
    /\ \E p \in Threads : resp[p].kind \in ConnectionErrors

\* the sum of Quantity x Price over the rows of Sales with index in I
RECURSIVE RowsAmount(_, _)
RowsAmount(rows, I) ==
    IF I = {} THEN 0
    ELSE LET i == CHOOSE x \in I : TRUE
         IN  rows[i].Quantity * rows[i].Price + RowsAmount(rows, I \ {i})

\* the sum of the totals of the groups with identifier in D
RECURSIVE GroupsTotal(_, _)
GroupsTotal(transactions, D) ==
    IF D = {} THEN 0
    ELSE LET t == CHOOSE x \in D : TRUE
         IN  transactions[t].total + GroupsTotal(transactions, D \ {t})

RECURSIVE GroupsLines(_, _)
GroupsLines(transactions, D) ==
    IF D = {} THEN 0
    ELSE LET t == CHOOSE x \in D : TRUE
         IN  Len(transactions[t].books) + GroupsLines(transactions, D \ {t})

\* the line of the ledger a row of Sales is shown as
LedgerLine(row) ==
    [book_name |-> row.BookName, quantity |-> row.Quantity, price |-> row.Price,
     subtotal |-> row.Quantity * row.Price]

\* C19: the ledger groups the Sales rows by transaction identifier: there is
\* one group per identifier in Sales, a group holds exactly the rows of its
\* identifier (each row as one line, as often as it occurs), its total is
\* the sum of Quantity x Price over those rows, the grand total is the sum
\* of the group totals, and the groups together hold as many lines as Sales
\* has rows (every row is in exactly one group).
C19_LedgerGroups ==
    [][ \A p \in Threads :
          (pc[p] = "sales_select" /\ pc'[p] = "idle" /\ resp'[p].kind = "ok") =>
             LET T == resp'[p].transactions
                 Of(id) == {i \in 1..Len(Sales) : Sales[i].transaction_id = id}
             IN  /\ DOMAIN T = {Sales[i].transaction_id : i \in 1..Len(Sales)}
                 /\ \A id \in DOMAIN T :
                      LET books == T[id].books
                      IN  /\ Len(books) = Cardinality(Of(id))
                          /\ \A i \in Of(id) :
                               Cardinality({j \in 1..Len(books) :
                                              books[j] = LedgerLine(Sales[i])})
                                 = Cardinality({i2 \in Of(id) :
                                                  LedgerLine(Sales[i2]) = LedgerLine(Sales[i])})
                          /\ T[id].total = RowsAmount(Sales, Of(id))
                 /\ resp'[p].total_sales = GroupsTotal(T, DOMAIN T)
                 /\ GroupsLines(T, DOMAIN T) = Len(Sales) ]_vars

\* the ledger shows two transactions, one of them with two lines
C19_Witness ==
    \E p \in Threads :
       /\ resp[p].op = "sales"
       /\ resp[p].kind = "ok"
       /\ Cardinality(DOMAIN resp[p].transactions) = 2
       /\ \E id \in DOMAIN resp[p].transactions :
            Len(resp[p].transactions[id].books) >= 2
       /\ resp[p].total_sales = 350

\* the trimmed phone number is made of exactly 10 of the characters 0-9
TenAsciiDigits(ph) ==
    /\ Len(ph) = 10
    /\ \A k \in 1..Len(ph) :
         ph[k] \in {"0", "1", "2", "3", "4", "5", "6", "7", "8", "9"}

\* C20: a sell request whose trimmed phone number is not exactly 10 ASCII
\* digits is never accepted: the check of the form ends it with the
\* invalid-phone outcome before the request has read or written the store,
\* and only requests with 10 ASCII digits go on to the validation of their
\* lines.
C20_PhoneTenAsciiDigits ==
    [][ \A p \in Threads :
          (pc[p] = "sell_form" /\ pc'[p] # pc[p]
              /\ ~TenAsciiDigits(Strip(form[p].phone_number))) =>
             /\ pc'[p] = "idle"
             /\ resp'[p].kind = "invalid_phone"
             /\ ~conn[p].snapTaken
             /\ Sales' = Sales
             /\ Available_Books' = Available_Books ]_vars

\* the pairs of zip(book_ids, quantities) whose book id and quantity are both
\* something else than empty or blank
KeptPairs(f) ==
    {k \in 1..Min(Len(f.book_ids), Len(f.quantities)) :
        Strip(f.book_ids[k]) # <<>> /\ Strip(f.quantities[k]) # <<>>}

\* two of the kept pairs carry the same trimmed book id
RepeatedId(f) ==
    \E i, j \in KeptPairs(f) :
       i < j /\ Strip(f.book_ids[i]) = Strip(f.book_ids[j])

\* the outcomes of the checks that come before the filter of the lines
BeforeFilter == {"missing_fields", "invalid_phone", "conn_error"}

NonPositive(q) == IntOk(Strip(q)) /\ IntValue(Strip(q)) <= 0

\* the pairs the normalization is to keep, in input order: the book id is
\* not empty or blank, the quantity not empty, blank or non-positive
Normalized(f) ==
    LET Keep(k) == /\ Strip(f.book_ids[k]) # <<>>
                   /\ Strip(f.quantities[k]) # <<>>
                   /\ ~NonPositive(f.quantities[k])
    IN  SelectSeq([k \in 1..Min(Len(f.book_ids), Len(f.quantities)) |-> k], Keep)

\* C22: the filter of a sell request (one without a repeated id) drops
\* exactly the pairs whose book id is empty or blank or whose quantity is
\* empty, blank or non-positive: when nothing remains the request is
\* rejected as an empty transaction, otherwise the sale goes on to validate
\* the remaining lines, in input order, each trimmed id with its own trimmed
\* quantity.
C22_NormalizationDrops ==
    [][ \A p \in Threads :
          (pc[p] = "sell_form" /\ pc'[p] # pc[p]
              /\ resp'[p].kind \notin BeforeFilter \cup {"duplicate"}) =>
             LET f == form[p]
                 n == Normalized(f)
             IN  IF n = <<>>
                 THEN pc'[p] = "idle" /\ resp'[p].kind = "empty"
                 ELSE /\ pc'[p] = "sell_validate"
                      /\ local'[p].valid_book_ids =
                           [k \in 1..Len(n) |-> Strip(f.book_ids[n[k]])]
                      /\ local'[p].valid_quantities =
                           [k \in 1..Len(n) |-> Strip(f.quantities[n[k]])] ]_vars

\* the error_type that goes with the place a lookup failed at: no connection
\* obtained, the query raised, or the book is absent
ErrorType(p) ==
    IF pc[p] = "get_conn" THEN "connection"
    ELSE IF faults' # faults THEN "query_error"
    ELSE "not_found"

C24_LoginRequired ==
    /\ [](\A p \in Threads :
            form[p].current_user = "anonymous" =>
               /\ pc[p] = "login_required"
               /\ conn[p] = NoConn
               /\ holds[p] = {}
               /\ frame[p] = "none")
    /\ [][ \A p \in Threads :
             (form[p].current_user = "anonymous" /\ pc'[p] # pc[p]) =>
                /\ pc'[p] = "idle"
                /\ resp'[p].kind = "login_redirect"
                /\ Available_Books' = Available_Books
                /\ Sales' = Sales
                /\ book_cache' = book_cache
                /\ checkedOut' = checkedOut
                /\ conn' = conn ]_vars

\* a sale without a session was redirected to the login view, the same sale
\* of a logged-in user was carried out
C24_Witness ==
    \E p, q \in Threads :
       /\ resp[p].op = "sell" /\ resp[p].kind = "login_redirect"
       /\ resp[q].op = "sell" /\ resp[q].kind = "sold"
       /\ Len(Sales) = 1

Validating == {"sell", "sell_form", "sell_validate"}

Persisting == {"sell_insert", "sell_update", "sell_commit"}

\* the lines that have passed validation are the first lines of the request,
\* in input order
PassedInOrder(l) ==
    /\ Len(l.books_to_sell) <= Len(l.valid_book_ids)
    /\ \A k \in 1..Len(l.books_to_sell) :
         l.books_to_sell[k].book_id = l.valid_book_ids[k]

\* C25: every sell request goes Validating -> Persisting -> Committed or
\* RolledBack: while it validates it issues no INSERT and no UPDATE; it
\* starts to persist only when all its lines have passed, which they do in
\* input order, and a rejection names the first line that did not pass; it
\* never validates again once it persists; and a request that has reached
\* Persisting ends either committed with the success answer or rolled back
\* by the except branch with nothing committed, never both.
C25_ValidatePersistEnd ==
    [][ \A p \in Threads :
          (form[p].op = "sell" /\ StepOf(p)) =>
             /\ pc[p] \in Validating =>
                  /\ conn'[p].ins = <<>> /\ XLocked(conn'[p]) = {}
                  /\ Sales' = Sales /\ Available_Books' = Available_Books
             /\ pc'[p] = "sell_validate" =>
                  /\ PassedInOrder(local'[p])
                  /\ local'[p].i = Len(local'[p].books_to_sell) + 1
             /\ (pc[p] = "sell_validate" /\ pc'[p] = "idle"
                    /\ resp'[p].kind \in ValidationFailures) =>
                  resp'[p].detail = local[p].valid_book_ids[Len(local[p].books_to_sell) + 1]
             /\ (pc[p] \in Validating /\ pc'[p] \in Persisting) =>
                  /\ pc'[p] = "sell_insert"
                  /\ PassedInOrder(local'[p])
                  /\ Len(local'[p].books_to_sell) = Len(local'[p].valid_book_ids)
             /\ pc[p] \in Persisting \cup {"sell_clear"} => pc'[p] \notin Validating
             /\ (pc[p] \in Persisting \cup {"sell_clear"} /\ pc'[p] = "idle") =>
                  \/ resp'[p].kind = "sold" /\ hist'[p].committed
                  \/ resp'[p].kind = "error" /\ ~hist'[p].committed ]_vars

\* C26: every connection that is checked out of the pool belongs to a
\* request in flight: a handler gives its connection back before it returns,
\* on every path, so that with no request in flight no connection is out.
C26_ConnectionsReturned ==
    /\ checkedOut = Cardinality({p \in Threads : conn[p].state = "open"})
    /\ (\A p \in Threads : pc[p] = "idle") => checkedOut = 0

\* the sum of Quantity over the rows of Sales for book b with index in I
RECURSIVE SoldOf(_, _, _)
SoldOf(b, rows, I) ==
    IF I = {} THEN 0
    ELSE LET i == CHOOSE x \in I : TRUE
         IN  (IF rows[i].Bookid = b THEN rows[i].Quantity ELSE 0)
               + SoldOf(b, rows, I \ {i})

\* the units added to book a by the committed stock updates: each thread has
\* served at most one request, and every update adds one unit
AddedToA ==
    Cardinality({p \in Threads :
                   resp[p].op = "update_stock" /\ hist[p].committed})

\* C27: no stock change is lost: whatever the interleaving of the sales and
\* stock additions on book a, once no request is in flight its Quantity is
\* the initial quantity (MaxStock) plus the units of the committed additions
\* minus the sum of Quantity over the committed Sales rows of the book.
C27_NoLostStockChange ==
    (\A p \in Threads : pc[p] = "idle") =>
       Available_Books[A].Quantity =
          MaxStock + AddedToA - SoldOf(A, Sales, 1..Len(Sales))

\* C28: every sell request eventually finishes: whatever the other requests
\* do, a thread that handles a sale returns with the response of that sale
\* (the sale recorded, an error after the rollback, or the form turned away);
\* two sales that wait for each other's rows do not wait forever.
C28_SellFinishes ==
    \A p \in Threads :
       (form[p].op = "sell") ~> (pc[p] = "idle" /\ resp[p].op = "sell")

\* two sales of the same two books in opposite order, each waiting for the
\* row the other has decremented
C28_Witness ==
    \E p, q \in Threads :
       /\ form[p] = Sale(<<A, B>>, <<<<"1">>, <<"1">>>>)
       /\ form[q] = Sale(<<B, A>>, <<<<"1">>, <<"1">>>>)
       /\ pc[p] = "sell_insert" /\ pc[q] = "sell_insert"
       /\ q \in Blockers(p) /\ p \in Blockers(q)
       /\ Deadlocked(p) /\ Deadlocked(q)

\* C29: a transaction identifier belongs to one sale: the Sales rows a commit
\* appends carry an identifier that no row recorded before carries, so the
\* rows sharing an identifier are the lines of one committed sell request.
C29_TransactionIdOfOneSale ==
    [][\A k \in (Len(Sales) + 1)..Len(Sales') :
          \A j \in 1..Len(Sales) :
             Sales'[k].transaction_id # Sales[j].transaction_id]_vars

\* what a sale of the kept lines f comes to on the rows of the store alone
LineKind(rows, id, q) ==
    IF ~IntOk(q) THEN "invalid_quantity"
    ELSE IF IntValue(q) <= 0 THEN "nonpositive_quantity"
    ELSE IF id \notin DOMAIN rows THEN "not_found"
    ELSE IF rows[id].Quantity < IntValue(q) THEN "insufficient"
    ELSE "ok"

OutcomeOn(rows, f) ==
    LET bad == {k \in 1..Len(f.ids) : LineKind(rows, f.ids[k], f.qtys[k]) # "ok"}
        first == CHOOSE k \in bad : \A j \in bad : k <= j
    IN  IF f.dup THEN "duplicate"
        ELSE IF f.ids = <<>> THEN "empty"
        ELSE IF bad = {} THEN "sold"
        ELSE LineKind(rows, f.ids[first], f.qtys[first])

RowsOn(rows, f, txn, name, phone) ==
    [k \in 1..Len(f.ids) |->
       SaleRow(txn, name, phone,
               ToSell(f.ids[k], rows[f.ids[k]], IntValue(f.qtys[k])))]

BooksOn(rows, f) ==
    [b \in DOMAIN rows |->
       LET sold == {k \in 1..Len(f.ids) : f.ids[k] = b}
       IN  IF sold = {} THEN rows[b]
           ELSE [rows[b] EXCEPT
                   !.Quantity = @ - IntValue(f.qtys[CHOOSE k \in sold : TRUE])]]

FromValidation ==
    {"duplicate", "empty", "invalid_quantity", "nonpositive_quantity",
     "not_found", "insufficient"}

\* C30: a sale does not depend on the cache: whatever book_cache holds (no
\* entry, an entry equal to the row, an entry that differs from it, an
\* expired one), a sale that is turned away is turned away for the reason the
\* rows of Available_Books give for its kept lines, and a sale that commits
\* was accepted on those rows, with the total, the Sales rows and the
\* resulting quantities they give.
C30_SaleIndependentOfCache ==
    [][\A p \in Threads :
         LET f == SellFilter(form[p].book_ids, form[p].quantities)
         IN  /\ (form[p].op = "sell" /\ resp'[p].op = "sell"
                    /\ resp'[p].kind \in FromValidation)
                  => /\ resp'[p].kind = OutcomeOn(Available_Books, f)
                     /\ UNCHANGED <<Available_Books, Sales>>
             /\ (form[p].op = "sell" /\ Commits(p))
                  => /\ OutcomeOn(Available_Books, f) = "sold"
                     /\ local[p].total_amount =
                           LinesTotal(f.ids, f.qtys, Available_Books)
                     /\ Sales' = Sales \o RowsOn(Available_Books, f,
                                                 local[p].transaction_id,
                                                 Strip(form[p].customer_name),
                                                 Strip(form[p].phone_number))
                     /\ Available_Books' = BooksOn(Available_Books, f)
             /\ (pc[p] = "sell_clear" /\ pc'[p] = "idle")
                  => resp'[p].kind = "sold"
                       /\ resp'[p].total = local[p].total_amount]_vars

\* a sale commits while book_cache holds an entry for a book it sells that
\* differs from the row of the store
C30_Witness ==
    \E p \in Threads :
       /\ pc[p] = "sell_clear"
       /\ hist[p].committed
       /\ \E b \in Range(local[p].valid_book_ids) \cap DOMAIN book_cache :
            /\ book_cache[b].age < CACHE_DURATION
            /\ book_cache[b].book.Quantity > Available_Books[b].Quantity + 1

====
